---------------------------- MODULE Spec2Model ----------------------------
(***************************************************************************)
(* A model of the api_exception package: the error-descriptor catalog,     *)
(* APIException construction and its defaulting rules, the process-wide    *)
(* DEFAULT_HTTP_CODES mapping, and the exception pipeline installed by     *)
(* register_exception_handlers (APIException handler, validation handler,  *)
(* catch-all middleware, logging, response-header echo) and the openapi()  *)
(* replacement that adds data: null to the documented error examples, run  *)
(* as one call (SpecOpenapi) and statement by statement with several calls *)
(* in flight (SpecInflight), and the "meta:" block of logger.py            *)
(* (SpecRendering).                                                        *)
(*                                                                         *)
(* Python values are modelled as follows.                                  *)
(*   - str: a TLA+ string.  None and "argument not passed" are the two     *)
(*     tokens None and Omitted, which no modelled str equals.              *)
(*   - an int-or-None argument: a record [kind, n].                        *)
(*   - dict: a sequence of <<key, value>> pairs with distinct keys, in     *)
(*     insertion order (Python dicts iterate in insertion order).          *)
(*   - a str whose characters the code inspects (validation messages): a   *)
(*     sequence of fragments, the str being their concatenation.           *)
(*   - a str whose length the code inspects (log context values): the      *)
(*     sequence of its characters.                                         *)
(***************************************************************************)
EXTENDS Integers, Sequences, FiniteSets, TLC

VARIABLES
    DEFAULT_HTTP_CODES, \* exception.py: the module-level severity -> status dict
    overrides,          \* the new_map arguments of the set_default_http_codes calls so far
    call,               \* the arguments of the latest APIException(...) call, and how
                        \* many set_default_http_codes calls preceded it
    exc,                \* the APIException instance that call produced
    app,                \* what register_exception_handlers installed on the app
    request,            \* the request being served
    failure,            \* the exception in flight in the request
    locals,             \* the locals of the handler that ran last
    logs,               \* the logger calls the handler made, in order
    response,           \* the JSONResponse the handler returned
    docs,               \* the documentation schema: app.openapi, app.openapi_schema
                        \* and the openapi() calls made
    rendering,          \* logger.py: META_STYLE, META_MAX_VAL_LEN and the last _format_meta
    inflight            \* the openapi() calls in flight, each at its own statement

vars ==
    <<DEFAULT_HTTP_CODES, overrides, call, exc, app, request, failure, locals, logs,
      response, docs, rendering, inflight>>

-----------------------------------------------------------------------------
(* Python tokens *)

None == "<None>"
Omitted == "<omitted>"

OmittedArg == [kind |-> "omitted", n |-> 0]
NoneArg == [kind |-> "none", n |-> 0]
IntArg(i) == [kind |-> "int", n |-> i]

\* Python truthiness of an int-or-None value: None and 0 are falsy.
Truthy(v) == v.kind = "int" /\ v.n # 0

-----------------------------------------------------------------------------
(* enums.py *)

Severity == {"SUCCESS", "WARNING", "FAIL"}

\* BaseExceptionCode accessors over the positional value tuple.
DescErrorCode(value) == value[1]

DescMessage(value) == value[2]

DescDescriptionOffByOne(value) == IF Len(value) > 3 THEN value[3] ELSE ""

DescDescription(value) == IF Len(value) > 2 THEN value[3] ELSE ""

DescRfc7807Type(value) == IF Len(value) > 3 THEN value[4] ELSE ""

DescRfc7807InstanceIsType(value) == IF Len(value) > 4 THEN value[4] ELSE ""

DescRfc7807Instance(value) == IF Len(value) > 4 THEN value[5] ELSE ""

AUTH_LOGIN_FAILED ==
    <<"AUTH-1000", "Incorrect username and password.", "Failed authentication attempt.",
      "https://example.com/problems/authentication-error", "/login">>

INTERNAL_SERVER_ERROR ==
    <<"ISE-500", "Internal Server Error",
      "An unexpected error occurred. Please try again later.",
      "https://example.com/problems/internal-server-error", "/">>

VALIDATION_ERROR ==
    <<"VAL-422", "Validation Error",
      "Request validation failed. Please check the submitted fields.",
      "https://example.com/problems/validation-error", "/">>

\* Entries of a user catalog (a subclass of BaseExceptionCode) of the other
\* permitted arities.
USER_NOT_FOUND == <<"USR-404", "User not found.", "The user ID does not exist.">>

CODE_OF_TWO == <<"RATE-429", "Too many requests.">>

CODE_OF_FOUR ==
    <<"PERM-403", "Permission denied.", "Access to this resource is forbidden.",
      "https://example.com/errors/forbidden">>

Descriptors == {CODE_OF_TWO, USER_NOT_FOUND, CODE_OF_FOUR, AUTH_LOGIN_FAILED}

-----------------------------------------------------------------------------
(* exception.py: DEFAULT_HTTP_CODES and set_default_http_codes *)

CODE_SUCCESS == 200
CODE_WARNING == 400
CODE_FAIL == 400

InitialCodes ==
    [s \in Severity |->
        CASE s = "SUCCESS" -> CODE_SUCCESS
          [] s = "WARNING" -> CODE_WARNING
          [] s = "FAIL" -> CODE_FAIL]

\* dict.update(m): the entries of m are written over those of d, the others stay.
DictUpdateReplace(d, m) == m

DictUpdate(d, m) ==
    [k \in DOMAIN d \cup DOMAIN m |-> IF k \in DOMAIN m THEN m[k] ELSE d[k]]

\* dict.get(k, default)
DictGet(d, k, default) == IF k \in DOMAIN d THEN d[k] ELSE default

-----------------------------------------------------------------------------
(* exception.py: APIException.__init__ *)

HttpStatusCodeDefault == 400
LookupFallback == 400

\* The binding of the http_status_code parameter: its default when not passed.
HttpStatusParamDefaultNone(arg) == IF arg.kind = "omitted" THEN NoneArg ELSE arg

HttpStatusParam(arg) == IF arg.kind = "omitted" THEN IntArg(HttpStatusCodeDefault) ELSE arg

\* http_status_code or DEFAULT_HTTP_CODES.get(status, 400)
HttpStatusOrDefaultIsNone(v, status, codes) ==
    IF v.kind = "int" THEN v.n ELSE DictGet(codes, status, LookupFallback)

HttpStatusOrDefault(v, status, codes) ==
    IF Truthy(v) THEN v.n ELSE DictGet(codes, status, LookupFallback)

\* message if message is not None else error_code.message
OverrideOr(given, default) == IF given # None THEN given ELSE default

\* A str-or-None parameter whose default is None.
OptParam(arg) == IF arg = Omitted THEN None ELSE arg

\* headers or {}
HeadersOrEmpty(h) == IF h.kind = "dict" /\ h.items # <<>> THEN h.items ELSE <<>>

NoHeadersArg == [kind |-> "omitted", items |-> <<>>]

APIExceptionInit(a, codes) ==
    LET error_code == a.error_code
        http_status_code == HttpStatusParam(a.http_status_code)
        status == IF a.status = Omitted THEN "FAIL" ELSE a.status
        message == OptParam(a.message)
        description == OptParam(a.description)
    IN  [kind |-> "APIException",
         message |-> OverrideOr(message, DescMessage(error_code)),
         error_code |-> DescErrorCode(error_code),
         description |-> OverrideOr(description, DescDescription(error_code)),
         status |-> status,
         http_status_code |-> HttpStatusOrDefault(http_status_code, status, codes),
         log_exception |-> a.log_exception,
         log_message |-> OptParam(a.log_message),
         rfc7807_type |-> DescRfc7807Type(error_code),
         rfc7807_instance |-> DescRfc7807Instance(error_code),
         headers |-> HeadersOrEmpty(a.headers)]

NoExc == [kind |-> "none"]
NoCall == [kind |-> "none"]

-----------------------------------------------------------------------------
(* Python str operations on the header names and header values of the model *)

\* An int header value (headers={"Retry-After": 5}) and an object whose __str__
\* raises.
Int5 == "<int 5>"
Unprintable == "<object whose __str__ raises>"

\* str(x), for x for which it returns
PyStr(x) == IF x = Int5 THEN "5" ELSE x

\* s.strip()
Strip(s) ==
    CASE s = " X-Request-Id " -> "X-Request-Id"
      [] s = "   " -> ""
      [] OTHER -> s

\* s.lower()
Lower(s) ==
    CASE s = "X-Request-Id" -> "x-request-id"
      [] s = "X-User-Id" -> "x-user-id"
      [] s = "Retry-After" -> "retry-after"
      [] OTHER -> s

\* Python truthiness of a str-or-None value
TruthyStr(v) == v # None /\ v # ""

\* The set of elements of a sequence
Range(seq) == {seq[i] : i \in DOMAIN seq}

EmptyDict == [k \in {} |-> ""]

-----------------------------------------------------------------------------
(* __init__.py: register_exception_handlers, configuration *)

DefaultLogHeaderKeys ==
    <<"x-request-id", "x-correlation-id", "x-amzn-trace-id", "x-forwarded-for",
      "user-agent", "referer">>

DefaultEchoKeys == <<"x-request-id", "x-correlation-id", "x-amzn-trace-id">>

LOGGING_DEBUG == 10
LOGGER_LEVEL == 30
LOGGING_ERROR == 40
HTTP_422_UNPROCESSABLE_ENTITY == 422

\* isinstance(k, str)
IsStr(k) == k \notin {None, Int5, Unprintable}

ValidateHeaderKeysKeepsCase(keys_iter) ==
    IF \E i \in DOMAIN keys_iter : ~IsStr(keys_iter[i]) \/ Strip(keys_iter[i]) = ""
    THEN [ok |-> FALSE, keys |-> <<>>]
    ELSE [ok |-> TRUE, keys |-> [i \in DOMAIN keys_iter |-> Strip(keys_iter[i])]]

\* _validate_header_keys: ok is FALSE where the code raises ValueError
ValidateHeaderKeys(keys_iter) ==
    IF \E i \in DOMAIN keys_iter : ~IsStr(keys_iter[i]) \/ Strip(keys_iter[i]) = ""
    THEN [ok |-> FALSE, keys |-> <<>>]
    ELSE [ok |-> TRUE, keys |-> [i \in DOMAIN keys_iter |-> Lower(Strip(keys_iter[i]))]]

BoolArg(b) == [kind |-> "bool", b |-> b, keys |-> <<>>]
NoneKeysArg == [kind |-> "none", b |-> FALSE, keys |-> <<>>]
OmittedKeysArg == [kind |-> "omitted", b |-> FALSE, keys |-> <<>>]
TupleArg(keys) == [kind |-> "tuple", b |-> FALSE, keys |-> keys]

\* The binding of the response_headers parameter: True when not passed.
ResponseHeadersParam(arg) == IF arg.kind = "omitted" THEN BoolArg(TRUE) ELSE arg

\* _resolve_response_headers_param

ResolveResponseHeadersParam(value) ==
    IF value.kind = "bool" /\ value.b
    THEN [ok |-> TRUE, keys |-> DefaultEchoKeys]
    ELSE IF value.kind \in {"none", "bool"} \/ value.keys = <<>>
         THEN [ok |-> TRUE, keys |-> <<>>]
         ELSE ValidateHeaderKeys(value.keys)

EffectiveLevelOfLogger(log_level, logger_level) == logger_level

\* effective_level = log_level if log_level is not None else logger.getEffectiveLevel()
EffectiveLevel(log_level, logger_level) ==
    IF log_level.kind = "int" THEN log_level.n ELSE logger_level

ResponseFormat == {"response_model", "response_dict", "rfc7807"}

-----------------------------------------------------------------------------
(* __init__.py: the helpers of the handlers *)

\* req.headers.get(k): Starlette keeps header names lower-cased and looks k up
\* case-insensitively.
ReqHeadersGet(req, k) ==
    IF Lower(k) \in DOMAIN req.headers THEN req.headers[Lower(k)] ELSE None

\* _collect_headers
CollectHeadersNotNone(req, keys) ==
    [k \in {x \in Range(keys) : ReqHeadersGet(req, x) # None} |-> ReqHeadersGet(req, k)]

CollectHeaders(req, keys) ==
    [k \in {x \in Range(keys) : TruthyStr(ReqHeadersGet(req, x))} |-> ReqHeadersGet(req, k)]

\* _response_headers
ResponseHeaders(a, req) ==
    IF a.response_header_keys = <<>>
    THEN EmptyDict
    ELSE CollectHeaders(req, a.response_header_keys)

-----------------------------------------------------------------------------
(* response_model.py, rfc7807_model.py, exception.py: the three bodies *)

\* ResponseModel(...).model_dump(exclude_none=False)
ResponseModel(data, status, message, error_code, description) ==
    [data |-> data, status |-> status, message |-> message, error_code |-> error_code,
     description |-> description]

\* RFC7807ResponseModel(...).model_dump(exclude_none=False)
RFC7807ResponseModel(type, title, status, detail, instance) ==
    [type |-> type, title |-> title, status |-> status, detail |-> detail,
     instance |-> instance]

\* APIException.to_response
ToResponse(e) ==
    [data |-> None, error_code |-> e.error_code, status |-> e.status,
     message |-> e.message, description |-> e.description]

\* APIException.to_rfc7807_response
ToRfc7807ResponseSwapped(e) ==
    RFC7807ResponseModel(e.rfc7807_type, e.description, e.http_status_code, e.message,
                         e.rfc7807_instance)

ToRfc7807Response(e) ==
    RFC7807ResponseModel(e.rfc7807_type, e.message, e.http_status_code, e.description,
                         e.rfc7807_instance)

\* APIException.to_response_model
ToResponseModel(e, data) ==
    ResponseModel(data, e.status, e.message, e.error_code, e.description)

\* The media type each handler gives the response of a format
MediaTypeAlwaysJson(response_format) == "application/json"

MediaType(response_format) ==
    IF response_format = "rfc7807" THEN "application/problem+json" ELSE "application/json"

\* pydantic rejects a message that is no str: ResponseModel.message and
\* RFC7807ResponseModel.title are str fields. to_response builds a plain dict.
SerializeRaises(e, response_format) ==
    response_format \in {"response_model", "rfc7807"} /\ e.message \in {Int5}

\* api_exception_handler: "Serialize according to selected format"
SerializeException(e, response_format) ==
    CASE response_format = "response_model" -> ToResponseModel(e, None)
      [] response_format = "rfc7807" -> ToRfc7807Response(e)
      [] OTHER -> ToResponse(e)

-----------------------------------------------------------------------------
(* __init__.py: merging the exception's own headers into the echoed ones *)

\* for k, v in list(exc_headers.items()): pop the entries with a None key, a blank
\* key or a None value.  raised: str(k) raised; the entries not yet visited stay.
RECURSIVE PopInvalid(_, _, _)
PopInvalid(items, i, kept) ==
    IF i > Len(items)
    THEN [raised |-> FALSE, items |-> kept]
    ELSE LET k == items[i][1]
             v == items[i][2]
         IN  IF k = None
             THEN PopInvalid(items, i + 1, kept)
             ELSE IF k = Unprintable
                  THEN [raised |-> TRUE, items |-> kept \o SubSeq(items, i, Len(items))]
                  ELSE IF Strip(PyStr(k)) = "" \/ v = None
                       THEN PopInvalid(items, i + 1, kept)
                       ELSE PopInvalid(items, i + 1, Append(kept, items[i]))

\* base_headers.update(...)
BaseHeadersSetDefault(base_headers, update) == DictUpdate(update, base_headers)

BaseHeadersUpdate(base_headers, update) == DictUpdate(base_headers, update)

\* The try block of the handlers.  exc_headers: the exception's dict afterwards;
\* headers: base_headers afterwards; raised: the except branch was taken.
MergeExcHeaders(base_headers, exc_headers) ==
    LET popped == PopInvalid(exc_headers, 1, <<>>)
        items == popped.items
        strRaises ==
            \E i \in DOMAIN items : items[i][1] = Unprintable \/ items[i][2] = Unprintable
        keys == {PyStr(items[i][1]) : i \in DOMAIN items}
        last(k) ==
            CHOOSE i \in DOMAIN items :
                /\ PyStr(items[i][1]) = k
                /\ \A j \in DOMAIN items : j > i => PyStr(items[j][1]) # k
        update == [k \in keys |-> PyStr(items[last(k)][2])]
        raised == popped.raised \/ strRaises
    IN  [raised |-> raised,
         exc_headers |-> items,
         headers |-> IF raised THEN base_headers ELSE BaseHeadersUpdate(base_headers, update)]

-----------------------------------------------------------------------------
(* __init__.py: validation message cleanup *)

\* A validation message is a sequence of fragments.  "Value error, " occurs in the
\* concatenation of fragments only as a whole fragment: no other fragment contains
\* a comma, and the prefix does not overlap itself.
ValueErrorPrefix == "Value error, "

Fragments == {ValueErrorPrefix, "Value error", "email must be valid"}

StaticValidationText == <<"Validation error">>

\* The fragment form of a str that is not inspected
Lift(str) == IF str = "" THEN <<>> ELSE <<str>>

\* raw.startswith("Value error, ")
StartsWithPrefix(raw) == raw # <<>> /\ raw[1] = ValueErrorPrefix

\* raw.replace("Value error, ", "")
ReplacePrefix(raw) == SelectSeq(raw, LAMBDA f : f # ValueErrorPrefix)

\* msg = raw.replace(...) if raw.startswith(...) else raw

Cleanup(raw) == IF StartsWithPrefix(raw) THEN ReplacePrefix(raw) ELSE raw

\* The try/except around exc.errors()[0].get("msg", "Validation error")
ExtractMessage(errors) ==
    IF errors = <<>>
    THEN StaticValidationText
    ELSE LET m == errors[1].msg
         IN  CASE m.kind = "absent" -> Cleanup(StaticValidationText)
               [] m.kind = "nonstr" -> StaticValidationText
               [] OTHER -> Cleanup(m.text)

\* description = msg or err.description
DescriptionAlwaysMsg(msg, err) == msg

DescriptionOr(msg, err) == IF msg # <<>> THEN msg ELSE Lift(DescDescription(err))

\* validation_exception_handler: "Response body"
SerializeValidation(description, response_format) ==
    LET err == VALIDATION_ERROR
    IN  CASE response_format = "rfc7807" ->
                RFC7807ResponseModel(DescRfc7807Type(err), DescMessage(err),
                                     HTTP_422_UNPROCESSABLE_ENTITY, description,
                                     DescRfc7807Instance(err))
          [] response_format = "response_model" ->
                ResponseModel(None, "FAIL", DescMessage(err), DescErrorCode(err),
                              description)
          [] OTHER ->
                [data |-> None, status |-> "FAIL", message |-> DescMessage(err),
                 error_code |-> DescErrorCode(err), description |-> description]

-----------------------------------------------------------------------------
(* __init__.py: the logger calls of the handlers *)

\* An exception that is neither an APIException nor a RequestValidationError
PyException(type, args, headers) == [type |-> type, args |-> args, headers |-> headers]

\* What ResponseModel(...) and RFC7807ResponseModel(...) raise
PydanticValidationError ==
    PyException("ValidationError", <<"1 validation error for ResponseModel">>, NoHeadersArg)

\* What a raising extra_log_fields raises
HookError == PyException("RuntimeError", <<"the hook failed">>, NoHeadersArg)

\* What jsonable_encoder raises
EncoderError == PyException("ValueError", <<"[TypeError, TypeError]">>, NoHeadersArg)

\* A log_message that is neither a str nor a dict
InvalidLogMessage == "<log_message of another type>"

\* The log_message arguments that are dicts: of JSON values, with a datetime, with
\* an object that has neither keys nor attributes
DictPayloadPlain == "<dict {'user': 'u-1'}>"
DictPayloadDatetime == "<dict {'at': datetime(2024, 1, 1)}>"
DictPayloadObject == "<dict {'conn': object()}>"
DictPayloads == {DictPayloadPlain, DictPayloadDatetime, DictPayloadObject}

\* jsonable_encoder(exc.log_message): JSON values are kept, a datetime becomes its
\* ISO string, and ValueError is raised for a value that is none of the known
\* types and that neither dict() nor vars() accepts.
JsonableEncoder(p) ==
    CASE p = DictPayloadPlain -> [raised |-> FALSE, value |-> DictPayloadPlain]
      [] p = DictPayloadDatetime ->
            [raised |-> FALSE, value |-> "<dict {'at': '2024-01-01T00:00:00'}>"]
      [] OTHER -> [raised |-> TRUE, value |-> None]

\* meta["extra_log_message"] = jsonable_encoder(exc.log_message) raises
PayloadRaises(e) ==
    e.log_message \in DictPayloads /\ JsonableEncoder(e.log_message).raised

\* What the handlers read from the request besides its headers
RequestPath == "<request.url.path>"
RequestMethod == "<request.method>"
ClientHost == "<request.client.host>"
HttpVersion == "<http_version>"

\* traceback.extract_stack()[-3] and traceback.format_exc()
RaiseFile == "<frame.filename>"
RaiseLine == "<frame.lineno>"
Traceback == "<traceback>"

\* One logger.log(level, msg, extra=...) call.  msg is the text as a sequence of its
\* pieces; extra is the structured context of the record; block is the context a
\* "meta:" line renders.
LogRecord(level, msg, extra, block) ==
    [level |-> level, msg |-> msg, extra |-> extra, block |-> block]

\* logger.error(msg) / logger.log(level, msg)
LoggerLog(level, msg) == <<LogRecord(level, msg, EmptyDict, EmptyDict)>>

\* logger.py: _RESERVED_KEYS
RESERVED_KEYS ==
    {"name", "msg", "args", "levelname", "levelno", "pathname", "filename", "module",
     "exc_info", "exc_text", "stack_info", "lineno", "funcName", "created", "msecs",
     "relativeCreated", "thread", "threadName", "processName", "process", "message",
     "asctime"}

\* A value json.dumps(v, default=str) raises for: a list that contains itself
CircularValue == "<list that contains itself>"

\* try: json.dumps(v, ensure_ascii=False, default=str); safe[key] = v
\* except Exception: safe[key] = str(v)
SanitizeValue(v) == IF v = CircularValue THEN "[[...]]" ELSE v

SafeKeyUnprefixed(k) == k

\* key = k if k not in _RESERVED_KEYS else f"meta_{k}"
SafeKey(k) == IF k \in RESERVED_KEYS THEN "meta_" \o k ELSE k

\* The place of a key among those the hook returned, 0 for the keys the handler
\* wrote itself (they come first in meta)
Rank(k, order) ==
    IF \E i \in DOMAIN order : order[i] = k
    THEN CHOOSE i \in DOMAIN order : order[i] = k
    ELSE 0

\* logger.py: _sanitize_extra. safe[key] is assigned in the order of meta.items(),
\* so of two keys of meta with the same safe key the later one stays. The values
\* the handlers write themselves are str, int, None and tuples, which json.dumps
\* with default=str accepts; only a value of the hook can be rejected.
SanitizeExtra(meta, order) ==
    [key \in {SafeKey(k) : k \in DOMAIN meta} |->
        LET sources == {k \in DOMAIN meta : SafeKey(k) = key}
            last == CHOOSE k \in sources : \A j \in sources : Rank(j, order) <= Rank(k, order)
        IN  IF Rank(last, order) > 0 THEN SanitizeValue(meta[last]) ELSE meta[last]]

\* logger.py: log_with_meta. order: the keys the hook returned, as it returned them
LogWithMeta(level, message, meta, order) ==
    IF DOMAIN meta = {}
    THEN LoggerLog(level, message)
    ELSE <<LogRecord(level, message, SanitizeExtra(meta, order), EmptyDict),
           LogRecord(level, <<"meta:">>, EmptyDict, meta)>>

\* The extra_log_fields argument: not passed, or a callable whose call either
\* returns a dict (fields), raises (nothing merged), returns a value dict.update
\* rejects (nothing merged), or returns pairs of which dict.update takes the first
\* ones (fields) before it rejects one.
NoHook == [kind |-> "none", raises |-> FALSE, fields |-> EmptyDict, order |-> <<>>]
Hook(raises, fields) ==
    [kind |-> "callable", raises |-> raises, fields |-> fields, order |-> <<>>]

\* A callable that returns the dict of the <<key, value>> pairs items, in that order
OrderedHook(items) ==
    [kind |-> "callable", raises |-> FALSE,
     fields |-> [k \in {items[i][1] : i \in DOMAIN items} |->
                    items[CHOOSE i \in DOMAIN items : items[i][1] = k][2]],
     order |-> [i \in DOMAIN items |-> items[i][1]]]

\* d1.update(d2); d1.update(d3); ... for dicts = <<d1, d2, d3, ...>>
DictUpdateAll(dicts) ==
    [k \in UNION {DOMAIN dicts[i] : i \in DOMAIN dicts} |->
        LET holders == {i \in DOMAIN dicts : k \in DOMAIN dicts[i]}
        IN  dicts[CHOOSE i \in holders : \A j \in holders : j <= i][k]]

\* if extra_log_fields: try: meta.update(extra_log_fields(request, exc))
\*                      except Exception: pass
\* updates: the dicts the handler has put into meta so far, in order.
HookRethrows(updates, hook) ==
    [raised |-> hook.raises, meta |-> DictUpdateAll(Append(updates, hook.fields)),
     order |-> hook.order]

HookUpdate(updates, hook) ==
    [raised |-> FALSE, meta |-> DictUpdateAll(Append(updates, hook.fields)),
     order |-> hook.order]

LogHeadersAlways(a, req) == CollectHeaders(req, a.log_header_keys)

\* if log_request_context: meta.update(_collect_headers(request, log_header_keys))
LogHeaders(a, req) ==
    IF a.log_request_context THEN CollectHeaders(req, a.log_header_keys) ELSE EmptyDict

\* api_exception_handler: the meta dict
ApiMeta(a, req, e) ==
    LET base ==
            [event |-> "api_exception",
             path |-> RequestPath,
             method |-> RequestMethod,
             client_ip |-> ClientHost,
             http_version |-> HttpVersion,
             error_code |-> e.error_code,
             status |-> e.status,
             http_status |-> e.http_status_code]
        headers == LogHeaders(a, req)
        frame ==
            IF a.log_request_context /\ a.log_traceback
            THEN [raise_file |-> RaiseFile, raise_line |-> RaiseLine]
            ELSE EmptyDict
        context ==
            IF a.log_request_context
            THEN [error_code |-> e.error_code,
                  err_message |-> e.message,
                  status |-> e.status,
                  description |-> e.description]
            ELSE EmptyDict
        payload ==
            IF e.log_message \in {None, InvalidLogMessage}
            THEN EmptyDict
            ELSE IF e.log_message \in DictPayloads
                 THEN (IF JsonableEncoder(e.log_message).raised
                       THEN EmptyDict
                       ELSE [extra_log_message |-> JsonableEncoder(e.log_message).value])
                 ELSE [extra_log_message |-> e.log_message]
    IN  HookUpdate(<<base, headers, frame, context, payload>>, a.extra_log_fields)

\* if log and getattr(exc, "log_exception", True) is True:
ShouldLogInstanceOnly(a, e) == e.log_exception

ShouldLog(a, e) == a.log /\ e.log_exception

\* api_exception_handler: "Central place to log raised APIException".  raised: an
\* exception leaves the logging block; lines: the logger calls made.
ApiLogLines(a, req, e) ==
    IF ~ShouldLog(a, e)
    THEN [raised |-> FALSE, lines |-> <<>>, error |-> None]
    ELSE LET hooked == ApiMeta(a, req, e)
             encoder_raised == PayloadRaises(e)
             before ==
                (IF a.log_request_context
                 THEN (IF a.log_traceback
                       THEN LoggerLog("ERROR", <<"Exception Raised in ", RaiseFile, ", line ",
                                                 RaiseLine>>)
                       ELSE <<>>)
                      \o LoggerLog("ERROR", <<"Code: ", e.error_code, ", Status: ", e.status,
                                              ", Description: ", e.description>>)
                 ELSE <<>>)
                \o (IF e.log_message = InvalidLogMessage
                    THEN LoggerLog("ERROR",
                                   <<"log_message param type is not correct! It can be [str | dict]">>)
                    ELSE <<>>)
         IN  IF encoder_raised \/ hooked.raised
             THEN [raised |-> TRUE, lines |-> before,
                   error |-> IF encoder_raised THEN EncoderError ELSE HookError]
             ELSE [raised |-> FALSE, error |-> None,
                   lines |->
                        before
                        \o LogWithMeta("ERROR", <<"APIException: ", e.message>>, hooked.meta, hooked.order)
                        \o (IF a.log_traceback /\ a.effective_level <= LOGGING_DEBUG
                            THEN LoggerLog("ERROR", <<"Traceback:\n", Traceback>>)
                            ELSE <<>>)]

\* validation_exception_handler: the meta dict
ValidationMeta(a, req, errors, msg) ==
    LET base ==
            [event |-> "validation_error",
             path |-> RequestPath,
             method |-> RequestMethod,
             client_ip |-> ClientHost,
             http_version |-> HttpVersion,
             error_count |-> Len(errors),
             first_error |-> msg]
        headers == LogHeaders(a, req)
    IN  HookUpdate(<<base, headers>>, a.extra_log_fields)

\* validation_exception_handler: if log:
ValidationLogLines(a, req, errors, msg) ==
    IF ~a.log
    THEN [raised |-> FALSE, lines |-> <<>>]
    ELSE LET hooked == ValidationMeta(a, req, errors, msg)
         IN  IF hooked.raised
             THEN [raised |-> TRUE, lines |-> <<>>]
             ELSE [raised |-> FALSE,
                   lines |->
                        IF a.log_traceback /\ a.effective_level <= LOGGING_DEBUG
                        THEN LogWithMeta("WARNING",
                                         <<"Validation Error: ">> \o msg
                                            \o <<"\nTraceback:\n", Traceback>>,
                                         hooked.meta, hooked.order)
                        ELSE LogWithMeta("WARNING", <<"Validation Error: ">> \o msg,
                                         hooked.meta, hooked.order)]

\* fallback_exception_middleware: the meta dict
UnhandledMeta(a, req, e) ==
    LET base ==
            [event |-> "unhandled_exception",
             path |-> RequestPath,
             method |-> RequestMethod,
             client_ip |-> ClientHost,
             http_version |-> HttpVersion,
             exception_type |-> e.type,
             exception_args |-> e.args]
        headers == LogHeaders(a, req)
    IN  HookUpdate(<<base, headers>>, a.extra_log_fields)

\* str(e) of an exception: its only argument, or the empty string without arguments
ExceptionStr(e) == IF Len(e.args) = 1 THEN e.args[1] ELSE ""

\* fallback_exception_middleware: if log:
UnhandledLogLines(a, req, e) ==
    IF ~a.log
    THEN [raised |-> FALSE, lines |-> <<>>]
    ELSE LET hooked == UnhandledMeta(a, req, e)
         IN  IF hooked.raised
             THEN [raised |-> TRUE, lines |-> <<>>]
             ELSE [raised |-> FALSE,
                   lines |->
                        IF a.log_traceback_unhandled_exception
                        THEN LogWithMeta("ERROR",
                                         <<"Unhandled Exception: ", ExceptionStr(e),
                                           "\nTraceback:\n", Traceback>>,
                                         hooked.meta, hooked.order)
                        ELSE LogWithMeta("ERROR",
                                         <<"Unhandled Exception: ", ExceptionStr(e)>>,
                                         hooked.meta, hooked.order)]

\* fallback_exception_middleware: the body, from ExceptionCode.INTERNAL_SERVER_ERROR
HTTP_500 == 500

SerializeUnhandledAsValidation(response_format) ==
    SerializeValidation(Lift(DescDescription(VALIDATION_ERROR)), response_format)

SerializeUnhandled(response_format) ==
    LET err == INTERNAL_SERVER_ERROR
    IN  CASE response_format = "rfc7807" ->
                RFC7807ResponseModel(DescRfc7807Type(err), DescMessage(err), HTTP_500,
                                     DescDescription(err), DescRfc7807Instance(err))
          [] response_format = "response_model" ->
                ResponseModel(None, "FAIL", DescMessage(err), DescErrorCode(err),
                              DescDescription(err))
          [] OTHER ->
                [data |-> None, status |-> "FAIL", message |-> DescMessage(err),
                 error_code |-> DescErrorCode(err), description |-> DescDescription(err)]

-----------------------------------------------------------------------------
(* __init__.py: the openapi() replacement installed by the registration *)

\* An example of a media type object: a dict, a value that is no dict, or none.
DictExample(d) == [kind |-> "dict", value |-> d]
OtherExample == [kind |-> "str", value |-> EmptyDict]
NoExample == [kind |-> "absent", value |-> EmptyDict]

ErrorKeys == {"status", "message", "description", "error_code"}

\* if isinstance(example, dict) and "status" in example and ... and "data" not in
\* example: example["data"] = None
PatchExampleAnyKey(example) ==
    IF /\ example.kind = "dict"
       /\ ErrorKeys \cap DOMAIN example.value # {}
       /\ "data" \notin DOMAIN example.value
    THEN DictExample(DictUpdate(example.value, [data |-> None]))
    ELSE example

PatchExample(example) ==
    IF /\ example.kind = "dict"
       /\ ErrorKeys \subseteq DOMAIN example.value
       /\ "data" \notin DOMAIN example.value
    THEN DictExample(DictUpdate(example.value, [data |-> None]))
    ELSE example

\* for _, content_v in content.items(): example = content_v.get("example") ...
PatchContent(content) ==
    [media \in DOMAIN content |->
        [content[media] EXCEPT !.example = PatchExample(content[media].example)]]

\* for response_k, response_v in method_v["responses"].items():
\*     if response_k == "200": continue
PatchResponses(responses) ==
    [response_k \in DOMAIN responses |->
        IF response_k = "200"
        THEN responses[response_k]
        ELSE [responses[response_k] EXCEPT
                !.content = PatchContent(responses[response_k].content)]]

\* if "responses" in method_v:
PatchOperation(method_v) ==
    IF "responses" \in DOMAIN method_v
    THEN [method_v EXCEPT !.responses = PatchResponses(method_v.responses)]
    ELSE method_v

\* paths = schema.get("paths") or {}; for path_k, path_v in paths.items(): ...
PatchSchema(schema) ==
    IF "paths" \in DOMAIN schema
    THEN [schema EXCEPT
            !.paths = [path_k \in DOMAIN schema.paths |->
                        [method_k \in DOMAIN schema.paths[path_k] |->
                            PatchOperation(schema.paths[path_k][method_k])]]]
    ELSE schema

\* app.openapi_schema before the first openapi() call
NoSchema == [unset |-> TRUE]

SchemaNeverCached(schema) == TRUE

\* if not app.openapi_schema:
SchemaUnset(schema) == schema = NoSchema

\* docs before register_exception_handlers: the host's own openapi is in place.
NoDocs ==
    [patched |-> FALSE,
     openapi_schema |-> NoSchema,
     generated |-> NoSchema,
     generator_calls |-> 0,
     traversals |-> 0,
     calls |-> 0,
     returned |-> NoSchema]

\* logger.py as imported: META_STYLE = "kv_block", META_MAX_VAL_LEN = 200, and no
\* context formatted yet; style and limit are the settings the last _format_meta
\* call read.
META_MAX_VAL_LEN == 200

NoRendering ==
    [META_STYLE |-> "kv_block",
     META_MAX_VAL_LEN |-> META_MAX_VAL_LEN,
     formatted |-> FALSE,
     style |-> "kv_block",
     limit |-> META_MAX_VAL_LEN,
     meta |-> <<>>,
     block |-> <<>>]

MaxCallers == 2

\* The requests for the documentation schema that may be in flight together
Callers == 1..MaxCallers

\* A request that has not arrived: pc is the statement of openapi() it is at,
\* todo the paths its traversal has not visited, returned what it was given.
NoCaller == [pc |-> "idle", overlapped |-> FALSE, todo |-> {}, returned |-> NoSchema]

\* No openapi() call in flight.  running: the request the event loop is executing
\* (0: none); generated: the document as the host's generator built it; object:
\* that same dict as it is now (the traversal writes into it); cached:
\* app.openapi_schema refers to it; stored: the values assigned at line 635.
NoInflight ==
    [running |-> 0,
     generated |-> NoSchema,
     object |-> NoSchema,
     cached |-> FALSE,
     stored |-> {},
     callers |-> [c \in Callers |-> NoCaller]]

-----------------------------------------------------------------------------
(* Inputs of the construction specification *)

MaxOverrides == 2

\* The new_map arguments tried: none, one or two severities named.
NewMaps ==
    { <<>>,
      [s \in {"FAIL"} |-> 500],
      [s \in {"FAIL"} |-> 422],
      [s \in {"WARNING"} |-> 422],
      [s \in {"SUCCESS"} |-> 201],
      [s \in {"FAIL", "WARNING"} |-> 500] }

HttpStatusArgs == {OmittedArg, NoneArg, IntArg(0), IntArg(403)}

StatusArgs == {Omitted} \cup Severity

MessageArgs == {Omitted, None, "Custom error message."}

DescriptionArgs == {Omitted, "", "Custom description."}

\* The calls tried: every descriptor with every status argument and severity, and
\* every descriptor with every message and description override.
ConstructorCalls ==
    [error_code : Descriptors,
     http_status_code : HttpStatusArgs,
     status : StatusArgs,
     message : {Omitted},
     description : {Omitted},
     log_exception : {TRUE},
     log_message : {Omitted},
     headers : {NoHeadersArg}]
    \cup
    [error_code : Descriptors,
     http_status_code : {OmittedArg, NoneArg},
     status : {Omitted},
     message : MessageArgs,
     description : DescriptionArgs,
     log_exception : {TRUE},
     log_message : {Omitted},
     headers : {NoHeadersArg}]

-----------------------------------------------------------------------------
(* State *)

NoApp == [state |-> "none"]
NoRequest == [kind |-> "none"]
NoFailure == [kind |-> "none"]
NoLocals == [kind |-> "none"]
NoResponse == [kind |-> "none"]

Init ==
    /\ DEFAULT_HTTP_CODES = InitialCodes
    /\ overrides = <<>>
    /\ call = NoCall
    /\ exc = NoExc
    /\ app = NoApp
    /\ request = NoRequest
    /\ failure = NoFailure
    /\ locals = NoLocals
    /\ logs = <<>>
    /\ response = NoResponse
    /\ docs = NoDocs
    /\ rendering = NoRendering
    /\ inflight = NoInflight

\* set_default_http_codes(new_map)
SetDefaultHttpCodes ==
    /\ Len(overrides) < MaxOverrides
    /\ \E new_map \in NewMaps :
        /\ DEFAULT_HTTP_CODES' = DictUpdate(DEFAULT_HTTP_CODES, new_map)
        /\ overrides' = Append(overrides, new_map)
        /\ UNCHANGED <<call, exc, app, docs, rendering, inflight, request, failure, locals, logs, response>>

\* exception = APIException(...), outside any request (as the unit tests do)
Construct ==
    \E a \in ConstructorCalls :
        /\ call' = [kind |-> "call", args |-> a, at |-> Len(overrides)]
        /\ exc' = APIExceptionInit(a, DEFAULT_HTTP_CODES)
        /\ UNCHANGED <<DEFAULT_HTTP_CODES, overrides, app, docs, rendering, inflight, request, failure, locals,
                       logs, response>>

NextExc == SetDefaultHttpCodes \/ Construct

SpecExc == Init /\ [][NextExc]_vars

-----------------------------------------------------------------------------
(* Inputs of the pipeline specification *)

MaxRequestHeaders == 2
MaxFragments == 3

ResponseHeadersArgs ==
    { OmittedKeysArg, BoolArg(TRUE), BoolArg(FALSE), NoneKeysArg, TupleArg(<<>>),
      TupleArg(<<"x-user-id">>), TupleArg(<<" X-Request-Id ", "X-User-Id">>),
      TupleArg(<<"x-user-id", "   ">>), TupleArg(<<"x-user-id", Int5>>),
      TupleArg(<<"">>) }

BaseRegistration ==
    [response_format |-> "response_model",
     use_fallback_middleware |-> TRUE,
     log |-> TRUE,
     log_traceback |-> TRUE,
     log_traceback_unhandled_exception |-> TRUE,
     log_level |-> NoneArg,
     logger_level |-> LOGGER_LEVEL,
     log_request_context |-> TRUE,
     log_header_keys |-> DefaultLogHeaderKeys,
     extra_log_fields |-> NoHook,
     response_headers |-> OmittedKeysArg,
     include_null_data_field_in_openapi |-> TRUE]

\* The extra_log_fields callables tried
Hooks ==
    { Hook(FALSE, [user_id |-> "u-1", message |-> "from the hook"]),
      Hook(TRUE, EmptyDict),
      Hook(TRUE, [tenant |-> "t-1"]),
      OrderedHook(<<<<"name", "billing">>, <<"cycle", CircularValue>>>>),
      OrderedHook(<<<<"message", "from the hook">>, <<"meta_message", "shadow">>>>),
      OrderedHook(<<<<"meta_message", "shadow">>, <<"message", "from the hook">>>>) }

\* The log_header_keys arguments tried besides the default
LogHeaderKeysArgs ==
    {<<" X-Request-Id ", "X-User-Id">>, <<"x-user-id", "   ">>, <<Int5, "x-user-id">>, <<>>}

\* The register_exception_handlers calls tried: every format with every
\* response_headers value, and every format without the fallback or without logging.
Registrations ==
    {[BaseRegistration EXCEPT !.response_format = f, !.response_headers = h] :
        f \in ResponseFormat, h \in ResponseHeadersArgs}
    \cup {[BaseRegistration EXCEPT !.response_format = f, !.use_fallback_middleware = FALSE] :
            f \in ResponseFormat}
    \cup {[BaseRegistration EXCEPT !.response_format = f, !.log = FALSE] :
            f \in ResponseFormat}
    \cup {[BaseRegistration EXCEPT !.extra_log_fields = h, !.use_fallback_middleware = u] :
            h \in Hooks, u \in BOOLEAN}
    \cup {[BaseRegistration EXCEPT !.log = FALSE, !.extra_log_fields = h] : h \in Hooks}
    \cup {[BaseRegistration EXCEPT !.log_header_keys = k] : k \in LogHeaderKeysArgs}
    \cup {[BaseRegistration EXCEPT !.log_traceback = FALSE],
          [BaseRegistration EXCEPT !.log_request_context = FALSE],
          [BaseRegistration EXCEPT !.log_traceback_unhandled_exception = FALSE],
          [BaseRegistration EXCEPT !.log_level = IntArg(LOGGING_DEBUG)],
          [BaseRegistration EXCEPT !.log_level = IntArg(LOGGING_DEBUG),
                                   !.log_traceback = FALSE],
          [BaseRegistration EXCEPT !.logger_level = LOGGING_DEBUG],
          [BaseRegistration EXCEPT !.logger_level = LOGGING_DEBUG,
                                   !.log_level = IntArg(LOGGING_ERROR)],
          [BaseRegistration EXCEPT !.logger_level = LOGGING_DEBUG,
                                   !.log_request_context = FALSE],
          [BaseRegistration EXCEPT !.log = FALSE, !.use_fallback_middleware = FALSE],
          [BaseRegistration EXCEPT !.include_null_data_field_in_openapi = FALSE]}

RequestHeaderNames == {"x-request-id", "x-correlation-id", "x-amzn-trace-id", "x-user-id"}

\* The requests tried: up to MaxRequestHeaders of the names, each with an empty or
\* a non-empty value.
Requests ==
    {[kind |-> "request", headers |-> h] :
        h \in UNION {[D -> {"", "abc-123"}] :
                        D \in {X \in SUBSET RequestHeaderNames :
                                    Cardinality(X) <= MaxRequestHeaders}}}

DictArg(items) == [kind |-> "dict", items |-> items]

\* The headers= arguments tried
ExcHeaderDicts ==
    { <<>>,
      <<<<"x-request-id", "from-exception">>>>,
      <<<<"Retry-After", Int5>>, <<"x-user-id", "">>>>,
      <<<<None, "a">>, <<"   ", "b">>, <<"x-null", None>>, <<"x-ok", "1">>>>,
      <<<<"x-ok", "1">>, <<"x-null", None>>, <<"x-bad", Unprintable>>>>,
      <<<<None, "a">>, <<Unprintable, "b">>, <<"x-null", None>>>> }

SiteDefaults ==
    [error_code |-> AUTH_LOGIN_FAILED,
     http_status_code |-> OmittedArg,
     status |-> Omitted,
     message |-> Omitted,
     description |-> Omitted,
     log_exception |-> TRUE,
     log_message |-> Omitted,
     headers |-> NoHeadersArg]

\* The raise APIException(...) statements of the endpoints
RaiseSites ==
    {[SiteDefaults EXCEPT !.error_code = d] : d \in Descriptors}
    \cup {[SiteDefaults EXCEPT !.error_code = d, !.http_status_code = NoneArg,
                               !.status = "WARNING"] : d \in Descriptors}
    \cup {[SiteDefaults EXCEPT !.error_code = d, !.http_status_code = IntArg(403),
                               !.status = "SUCCESS",
                               !.message = "Custom error message.",
                               !.description = ""] : d \in Descriptors}
    \cup {[SiteDefaults EXCEPT !.headers = DictArg(h)] : h \in ExcHeaderDicts}
    \cup {[SiteDefaults EXCEPT !.log_exception = FALSE],
          [SiteDefaults EXCEPT !.message = Int5],
          [SiteDefaults EXCEPT !.log_message = InvalidLogMessage],
          [SiteDefaults EXCEPT !.log_message = "login throttled"]}
    \cup {[SiteDefaults EXCEPT !.log_message = p] : p \in DictPayloads}

\* The exceptions the endpoints raise besides APIException
UnhandledExceptions ==
    { PyException("ValueError", <<"Some unexpected error">>, NoHeadersArg),
      PyException("RuntimeError", <<>>, NoHeadersArg),
      PyException("UpstreamError", <<"db password is hunter2">>,
                  DictArg(<<<<"x-request-id", "from-exception">>, <<"x-null", None>>>>)),
      PyException("UpstreamError", <<"Some unexpected error">>,
                  DictArg(<<<<"x-bad", Unprintable>>>>)) }

Texts == UNION {[1..n -> Fragments] : n \in 0..MaxFragments}

AbsentMsg == [kind |-> "absent", text |-> <<>>]
NonStrMsg == [kind |-> "nonstr", text |-> <<>>]
StrMsg(t) == [kind |-> "str", text |-> t]

\* The exc.errors() lists tried: empty, one error, two errors
ErrorLists ==
    {<<>>}
    \cup {<<[msg |-> m]>> : m \in {AbsentMsg, NonStrMsg} \cup {StrMsg(t) : t \in Texts}}
    \cup {<<[msg |-> m], [msg |-> StrMsg(<<"field required">>)]>> :
            m \in {AbsentMsg, NonStrMsg, StrMsg(<<ValueErrorPrefix, "email must be valid">>)}}

-----------------------------------------------------------------------------
(* The pipeline *)

Idle == failure.kind = "none" /\ request.kind = "none"

\* register_exception_handlers(app, ...)
Register ==
    /\ app.state = "none"
    /\ \E c \in Registrations :
        /\ LET log_header_keys == ValidateHeaderKeys(c.log_header_keys)
               response_header_keys ==
                   ResolveResponseHeadersParam(ResponseHeadersParam(c.response_headers))
           IN  app' =
                   IF ~log_header_keys.ok \/ ~response_header_keys.ok
                   THEN [state |-> "ValueError",
                         given_log_header_keys |-> c.log_header_keys,
                         response_headers |-> ResponseHeadersParam(c.response_headers)]
                   ELSE [state |-> "registered",
                         given_log_header_keys |-> c.log_header_keys,
                         response_format |-> c.response_format,
                         use_fallback_middleware |-> c.use_fallback_middleware,
                         log |-> c.log,
                         log_traceback |-> c.log_traceback,
                         log_traceback_unhandled_exception |->
                            c.log_traceback_unhandled_exception,
                         extra_log_fields |-> c.extra_log_fields,
                         log_request_context |-> c.log_request_context,
                         log_level |-> c.log_level,
                         logger_level |-> c.logger_level,
                         effective_level |-> EffectiveLevel(c.log_level, c.logger_level),
                         log_header_keys |-> log_header_keys.keys,
                         response_headers |-> ResponseHeadersParam(c.response_headers),
                         response_header_keys |-> response_header_keys.keys]
        /\ docs' = [docs EXCEPT !.patched = /\ app'.state = "registered"
                                            /\ c.include_null_data_field_in_openapi]
        /\ UNCHANGED <<DEFAULT_HTTP_CODES, overrides, call, exc, request, failure, locals,
                       logs, response, rendering, inflight>>

\* An endpoint runs raise APIException(...) while serving a request.
EndpointRaisesAPIException ==
    /\ app.state = "registered"
    /\ Idle
    /\ \E r \in Requests, a \in RaiseSites :
        /\ request' = r
        /\ call' = [kind |-> "call", args |-> a, at |-> Len(overrides)]
        /\ exc' = APIExceptionInit(a, DEFAULT_HTTP_CODES)
        /\ failure' = [kind |-> "APIException"]
        /\ UNCHANGED <<DEFAULT_HTTP_CODES, overrides, app, docs, rendering, inflight, locals, logs, response>>

\* if use_fallback_middleware: the validation handler and the catch-all are installed
FallbackInstalledAlways(a) == TRUE

FallbackInstalled(a) == a.use_fallback_middleware

\* The states passed through when the logging block lets an exception out
PhasesRaised(intercepted, lines) ==
    <<intercepted>> \o (IF lines # <<>> THEN <<"LOGGED">> ELSE <<>>)

\* The pipeline states a handler passes through, in the order of its code: entry,
\* the logging block (when it makes a logger call), the body, the JSONResponse.
Phases(intercepted, lines) ==
    <<intercepted>> \o (IF lines # <<>> THEN <<"LOGGED">> ELSE <<>>)
        \o <<"FORMATTED", "RESPONDED">>

\* @app.exception_handler(APIException): the host calls the handler for a raised
\* APIException
ApiExceptionHandlerCalled == app.state = "registered" /\ failure.kind = "APIException"

\* async def api_exception_handler(request, exc)
ApiExceptionHandler ==
    /\ ApiExceptionHandlerCalled
    /\ LET logged == ApiLogLines(app, request, exc)
           content == SerializeException(exc, app.response_format)
           media_type == MediaType(app.response_format)
           base_headers == ResponseHeaders(app, request)
           merged == MergeExcHeaders(base_headers, exc.headers)
       IN  /\ logs' = logged.lines
           /\ IF logged.raised \/ SerializeRaises(exc, app.response_format)
              THEN /\ failure' = [kind |-> "Exception",
                                  e |-> IF logged.raised
                                        THEN logged.error
                                        ELSE PydanticValidationError,
                                  origin |-> "APIException"]
                   /\ locals' = [handler |-> "api_exception_handler",
                                 phases |-> PhasesRaised("INTERCEPTED(DomainException)",
                                                         logged.lines)]
                   /\ UNCHANGED <<exc, response>>
              ELSE /\ failure' = [kind |-> "handled", origin |-> "APIException"]
                   /\ exc' = [exc EXCEPT !.headers = merged.exc_headers]
                   /\ locals' = [handler |-> "api_exception_handler",
                                 echoed |-> base_headers,
                                 merge_raised |-> merged.raised,
                                 phases |-> Phases("INTERCEPTED(DomainException)",
                                                   logged.lines)]
                   /\ response' = [kind |-> "JSONResponse",
                                   status_code |-> exc.http_status_code,
                                   content |-> content,
                                   media_type |-> media_type,
                                   headers |-> merged.headers]
    /\ UNCHANGED <<DEFAULT_HTTP_CODES, overrides, call, app, docs, rendering, inflight, request>>

\* The host's request validation rejects the request: RequestValidationError.
RequestFailsValidation ==
    /\ app.state = "registered"
    /\ Idle
    /\ \E r \in Requests, errors \in ErrorLists :
        /\ request' = r
        /\ failure' = [kind |-> "RequestValidationError", errors |-> errors]
        /\ UNCHANGED <<DEFAULT_HTTP_CODES, overrides, call, exc, app, docs, rendering, inflight, locals, logs,
                       response>>

\* @app.exception_handler(RequestValidationError)
ValidationExceptionHandlerCalled ==
    /\ app.state = "registered"
    /\ FallbackInstalled(app)
    /\ failure.kind = "RequestValidationError"

\* async def validation_exception_handler(request, exc), installed only
\* if use_fallback_middleware
ValidationExceptionHandler ==
    /\ ValidationExceptionHandlerCalled
    /\ LET msg == ExtractMessage(failure.errors)
           logged == ValidationLogLines(app, request, failure.errors, msg)
           description == DescriptionOr(msg, VALIDATION_ERROR)
           base_headers == ResponseHeaders(app, request)
       IN  /\ logs' = logged.lines
           /\ IF logged.raised
              THEN /\ failure' = [kind |-> "Exception", e |-> HookError,
                                  origin |-> "RequestValidationError"]
                   /\ locals' = [handler |-> "validation_exception_handler",
                                 phases |-> PhasesRaised("INTERCEPTED(ValidationFailure)",
                                                         logged.lines)]
                   /\ UNCHANGED response
              ELSE /\ failure' = [kind |-> "handled", origin |-> "RequestValidationError",
                                  errors |-> failure.errors]
                   /\ locals' = [handler |-> "validation_exception_handler",
                                 echoed |-> base_headers,
                                 merge_raised |-> FALSE,
                                 msg |-> msg,
                                 phases |-> Phases("INTERCEPTED(ValidationFailure)",
                                                   logged.lines)]
                   /\ response' = [kind |-> "JSONResponse",
                                   status_code |-> HTTP_422_UNPROCESSABLE_ENTITY,
                                   content |->
                                        SerializeValidation(description, app.response_format),
                                   media_type |-> MediaType(app.response_format),
                                   headers |-> base_headers]
    /\ UNCHANGED <<DEFAULT_HTTP_CODES, overrides, call, exc, app, docs, rendering, inflight, request>>

\* Without use_fallback_middleware no validation handler is installed and the
\* host's own handler answers.
HostValidationHandler ==
    /\ app.state = "registered"
    /\ ~FallbackInstalled(app)
    /\ failure.kind = "RequestValidationError"
    /\ response' = [kind |-> "host response"]
    /\ locals' = [handler |-> "host", phases |-> <<>>]
    /\ failure' = [kind |-> "handled", origin |-> "RequestValidationError",
                   errors |-> failure.errors]
    /\ UNCHANGED <<DEFAULT_HTTP_CODES, overrides, call, exc, app, docs, rendering, inflight, request, logs>>

\* An endpoint raises an exception no exception handler is registered for.
EndpointRaisesException ==
    /\ app.state = "registered"
    /\ Idle
    /\ \E r \in Requests, e \in UnhandledExceptions :
        /\ request' = r
        /\ failure' = [kind |-> "Exception", e |-> e, origin |-> "Exception"]
        /\ UNCHANGED <<DEFAULT_HTTP_CODES, overrides, call, exc, app, docs, rendering, inflight, locals, logs,
                       response>>

\* The states a failure passed through before the catch-all sees it
PhasesSoFar == IF locals = NoLocals THEN <<>> ELSE locals.phases

CaughtFromEndpointOnly(f) == f.kind = "Exception" /\ f.origin = "Exception"

\* try: return await call_next(request) / except Exception as e: call_next runs
\* the endpoint and the registered exception handlers
CaughtByExcept(f) == f.kind = "Exception"

\* @app.middleware("http"): except Exception as e
FallbackExceptionMiddlewareCatches ==
    /\ app.state = "registered"
    /\ FallbackInstalled(app)
    /\ CaughtByExcept(failure)

\* async def fallback_exception_middleware(request, call_next), installed only
\* if use_fallback_middleware: the except branch
FallbackExceptionMiddleware ==
    /\ FallbackExceptionMiddlewareCatches
    /\ LET e == failure.e
           logged == UnhandledLogLines(app, request, e)
           base_headers == ResponseHeaders(app, request)
           merged == MergeExcHeaders(base_headers, HeadersOrEmpty(e.headers))
       IN  /\ logs' = logs \o logged.lines
           /\ IF logged.raised
              THEN /\ failure' = [kind |-> "handled", origin |-> failure.origin]
                   /\ locals' = [handler |-> "host",
                                 phases |->
                                    PhasesSoFar
                                    \o PhasesRaised("INTERCEPTED(UnhandledFailure)",
                                                    logged.lines)]
                   /\ response' = [kind |-> "host response"]
              ELSE /\ failure' = [kind |-> "handled", origin |-> failure.origin,
                                  e |-> [e EXCEPT !.headers =
                                            IF e.headers.kind = "dict"
                                            THEN DictArg(merged.exc_headers)
                                            ELSE e.headers]]
                   /\ locals' = [handler |-> "fallback_exception_middleware",
                                 echoed |-> base_headers,
                                 merge_raised |-> merged.raised,
                                 phases |->
                                    PhasesSoFar
                                    \o Phases("INTERCEPTED(UnhandledFailure)", logged.lines)]
                   /\ response' = [kind |-> "JSONResponse",
                                   status_code |-> HTTP_500,
                                   content |-> SerializeUnhandled(app.response_format),
                                   media_type |-> MediaType(app.response_format),
                                   headers |-> merged.headers]
    /\ UNCHANGED <<DEFAULT_HTTP_CODES, overrides, call, exc, app, docs, rendering, inflight, request>>

\* Without use_fallback_middleware no catch-all is installed: the exception leaves
\* the application and the host's server answers.
ExceptionPropagates ==
    /\ app.state = "registered"
    /\ ~FallbackInstalled(app)
    /\ failure.kind = "Exception"
    /\ response' = [kind |-> "host response"]
    /\ locals' = [handler |-> "host", phases |-> PhasesSoFar]
    /\ failure' = [kind |-> "handled", origin |-> failure.origin, e |-> failure.e]
    /\ UNCHANGED <<DEFAULT_HTTP_CODES, overrides, call, exc, app, docs, rendering, inflight, request, logs>>

\* The response is sent; the request and its exception are dropped.
RequestCompletes ==
    /\ failure.kind = "handled"
    /\ request' = NoRequest
    /\ failure' = NoFailure
    /\ exc' = NoExc
    /\ call' = NoCall
    /\ locals' = NoLocals
    /\ logs' = <<>>
    /\ response' = NoResponse
    /\ UNCHANGED <<DEFAULT_HTTP_CODES, overrides, app, docs, rendering, inflight>>

Next ==
    \/ Register
    \/ EndpointRaisesAPIException
    \/ ApiExceptionHandler
    \/ RequestFailsValidation
    \/ ValidationExceptionHandler
    \/ HostValidationHandler
    \/ EndpointRaisesException
    \/ FallbackExceptionMiddleware
    \/ ExceptionPropagates
    \/ RequestCompletes

Spec == Init /\ [][Next]_vars

-----------------------------------------------------------------------------
(* The documentation schema *)

MaxResponses == 2
MaxCalls == 3

ErrorExample ==
    [status |-> "FAIL", message |-> "Incorrect username and password.",
     description |-> "Failed authentication attempt.", error_code |-> "AUTH-1000"]

\* The example values tried
Examples ==
    { DictExample(ErrorExample),
      DictExample(DictUpdate(ErrorExample, [data |-> "payload"])),
      DictExample(DictUpdate(ErrorExample, [data |-> None])),
      DictExample([status |-> "FAIL", message |-> "m", description |-> "d"]),
      DictExample([detail |-> "Not found"]),
      OtherExample,
      NoExample }

\* The content objects tried: none, one media type, two media types
Contents ==
    {EmptyDict}
    \cup {[media \in {"application/json"} |-> [example |-> e]] : e \in Examples}
    \cup {[media \in {"application/json", "application/problem+json"} |->
            [example |-> IF media = "application/json"
                         THEN DictExample(ErrorExample)
                         ELSE DictExample([detail |-> "Not found"])]]}

StatusCodes == {"200", "404", "422"}

ResponseMaps ==
    UNION {[D -> {[description |-> "A response", content |-> c] : c \in Contents}] :
            D \in {X \in SUBSET StatusCodes : Cardinality(X) <= MaxResponses}}

Operations ==
    {[summary |-> "An operation", responses |-> r] : r \in ResponseMaps}
    \cup {[summary |-> "An operation"]}

\* What the host's generator returns for the routes of the app
Schemas ==
    {[openapi |-> "3.1.0", paths |-> [p \in {"/login"} |-> [m \in {"get"} |-> op]]] :
        op \in Operations}
    \cup {[openapi |-> "3.1.0"],
          [openapi |-> "3.1.0", paths |-> EmptyDict],
          [openapi |-> "3.1.0",
           paths |-> [p \in {"/login", "/users"} |->
                        [m \in {"get", "post"} |->
                            [summary |-> "An operation",
                             responses |->
                                [k \in {"200", "404"} |->
                                    [description |-> "A response",
                                     content |->
                                        [media \in {"application/json"} |->
                                            [example |-> DictExample(ErrorExample)]]]]]]]]}

\* app.openapi(): the replacement installed by the registration when
\* include_null_data_field_in_openapi is true, else the host's own method, which
\* also generates once and caches in app.openapi_schema. The host may ask for the
\* schema before the registration as well as after it.
Openapi ==
    /\ app.state \in {"none", "registered"}
    /\ docs.calls < MaxCalls
    /\ IF SchemaUnset(docs.openapi_schema)
       THEN \E schema \in (IF docs.generated = NoSchema THEN Schemas ELSE {docs.generated}) :
                LET result == IF docs.patched THEN PatchSchema(schema) ELSE schema
                IN  docs' = [docs EXCEPT
                                !.generated = schema,
                                !.generator_calls = @ + 1,
                                !.traversals = IF docs.patched THEN @ + 1 ELSE @,
                                !.openapi_schema = result,
                                !.calls = @ + 1,
                                !.returned = result]
       ELSE docs' = [docs EXCEPT !.calls = @ + 1, !.returned = docs.openapi_schema]
    /\ UNCHANGED <<DEFAULT_HTTP_CODES, overrides, call, exc, app, request, failure, locals,
                   logs, response, rendering, inflight>>

NextOpenapi == Register \/ Openapi

SpecOpenapi == Init /\ [][NextOpenapi]_vars

-----------------------------------------------------------------------------
(* Properties of construction and of the default-code mapping (SpecExc) *)

Constructed == exc.kind = "APIException"

\* The value the most recent override in h naming severity s gave it, or the
\* initial value when none named it.
RECURSIVE LastNaming(_, _)
LastNaming(h, s) ==
    IF h = <<>>
    THEN (IF s = "SUCCESS" THEN 200 ELSE 400)
    ELSE IF s \in DOMAIN h[Len(h)]
         THEN h[Len(h)][s]
         ELSE LastNaming(SubSeq(h, 1, Len(h) - 1), s)

\* The overrides that preceded the latest construction.
OverridesBeforeCall == SubSeq(overrides, 1, call.at)

NoTextOverride ==
    /\ call.args.message \in {Omitted, None}
    /\ call.args.description \in {Omitted, None}

\* C1: an APIException built from a descriptor d of 2 to 5 positional values, with
\* no message or description override, has message = d's 2nd value, description =
\* d's 3rd value (the empty string when d has only two), error_code = d's 1st
\* value; and its severity is FAIL when none is passed.
C1_NoOverrideTakesDescriptor ==
    Constructed =>
        LET d == call.args.error_code
        IN  /\ Len(d) \in 2..5
            /\ exc.error_code = d[1]
            /\ (NoTextOverride =>
                    /\ exc.message = d[2]
                    /\ exc.description = (IF Len(d) >= 3 THEN d[3] ELSE ""))
            /\ (call.args.status = Omitted => exc.status = "FAIL")

C1_Witness ==
    /\ Constructed
    /\ NoTextOverride
    /\ call.args.status = Omitted
    /\ Len(call.args.error_code) = 2
    /\ exc.description = ""
    /\ exc.message = "Too many requests."

\* C2 as stated: http_status is the mapping's value for the severity whenever the
\* status argument is falsy or not passed, and the passed value when it is truthy.
C2_DefaultWhenFalsyOrAbsent ==
    Constructed =>
        LET arg == call.args.http_status_code
        IN  IF arg.kind = "int" /\ arg.n # 0
            THEN exc.http_status_code = arg.n
            ELSE exc.http_status_code = LastNaming(OverridesBeforeCall, exc.status)

\* C2 (amended): http_status is the mapping's value for the severity exactly when
\* the caller passes a falsy status (None or 0); a status argument that is not
\* passed counts as the explicit value 400; a truthy status is kept unchanged,
\* whatever overrides preceded the construction.
C2_DefaultWhenFalsy ==
    Constructed =>
        LET arg == call.args.http_status_code
        IN  CASE arg.kind = "omitted" -> exc.http_status_code = 400
              [] arg.kind = "none" ->
                    exc.http_status_code = LastNaming(OverridesBeforeCall, exc.status)
              [] arg.kind = "int" /\ arg.n = 0 ->
                    exc.http_status_code = LastNaming(OverridesBeforeCall, exc.status)
              [] OTHER -> exc.http_status_code = arg.n

C2_Witness ==
    /\ Constructed
    /\ call.args.http_status_code = IntArg(0)
    /\ call.args.status = "WARNING"
    /\ call.at = 1
    /\ overrides[1] = [s \in {"WARNING"} |-> 422]
    /\ exc.http_status_code = 422

\* C3: once set_default_http_codes has overridden the value of a severity, an
\* APIException of that severity built without the http_status_code argument still
\* has http_status_code 400, and one built with http_status_code=None has the
\* overridden value.
C3_OmittedKeeps400NoneTakesOverride ==
    (Constructed /\ \E i \in 1..call.at : exc.status \in DOMAIN overrides[i]) =>
        /\ (call.args.http_status_code.kind = "omitted" => exc.http_status_code = 400)
        /\ (call.args.http_status_code.kind = "none" =>
                exc.http_status_code = LastNaming(OverridesBeforeCall, exc.status))

C3_Witness ==
    /\ Constructed
    /\ call.at = 1
    /\ overrides[1] = [s \in {"FAIL"} |-> 500]
    /\ call.args.status = Omitted
    /\ call.args.http_status_code.kind = "none"
    /\ exc.http_status_code = 500

\* C4: after any sequence of set_default_http_codes calls the mapping holds, for
\* each severity, the value of the most recent override naming it, or its initial
\* value (SUCCESS 200, WARNING 400, FAIL 400) when none named it; no severity
\* loses its entry; and a construction with a falsy status gets the value the
\* mapping held at that moment.
C4_OverridesMerge ==
    /\ \A s \in Severity :
            /\ s \in DOMAIN DEFAULT_HTTP_CODES
            /\ DEFAULT_HTTP_CODES[s] = LastNaming(overrides, s)
    /\ (Constructed /\ ~Truthy(call.args.http_status_code)
                    /\ call.args.http_status_code.kind # "omitted") =>
            exc.http_status_code = LastNaming(OverridesBeforeCall, exc.status)

C4_Witness ==
    /\ Len(overrides) = 2
    /\ overrides[1] = [s \in {"FAIL", "WARNING"} |-> 500]
    /\ overrides[2] = [s \in {"FAIL"} |-> 422]
    /\ DEFAULT_HTTP_CODES["FAIL"] = 422
    /\ DEFAULT_HTTP_CODES["WARNING"] = 500
    /\ DEFAULT_HTTP_CODES["SUCCESS"] = 200

-----------------------------------------------------------------------------
(* Properties of the pipeline (Spec) *)

ApiHandled == failure.kind = "handled" /\ locals.handler = "api_exception_handler"

ValidationHandled ==
    failure.kind = "handled" /\ locals.handler = "validation_exception_handler"

\* The descriptor the exception in flight was raised with
RaisedDescriptor == call.args.error_code

C6_ProblemResponse ==
    ApiHandled =>
        IF app.response_format = "rfc7807"
        THEN /\ response.content =
                    [type |-> (IF Len(RaisedDescriptor) >= 4 THEN RaisedDescriptor[4] ELSE ""),
                     instance |-> (IF Len(RaisedDescriptor) >= 5 THEN RaisedDescriptor[5] ELSE ""),
                     title |-> exc.message,
                     status |-> exc.http_status_code,
                     detail |-> exc.description]
             /\ response.media_type = "application/problem+json"
             /\ response.status_code = response.content.status
        ELSE response.media_type = "application/json"

C6_Witness ==
    /\ ApiHandled
    /\ app.response_format = "rfc7807"
    /\ response.media_type = "application/problem+json"
    /\ response.status_code = 400
    /\ response.content =
            [type |-> "https://example.com/problems/authentication-error",
             instance |-> "/login",
             title |-> "Incorrect username and password.",
             status |-> 400,
             detail |-> "Failed authentication attempt."]

\* The header name a configured key stands for: trimmed and lower-cased.
HeaderName(k) ==
    CASE k = " X-Request-Id " -> "x-request-id"
      [] k = "X-User-Id" -> "x-user-id"
      [] OTHER -> k

\* The names the response_headers value of the registration asks to echo
EchoNames ==
    CASE app.response_headers.kind = "bool" /\ app.response_headers.b ->
            {"x-request-id", "x-correlation-id", "x-amzn-trace-id"}
      [] app.response_headers.kind = "tuple" ->
            {HeaderName(app.response_headers.keys[i]) : i \in DOMAIN app.response_headers.keys}
      [] OTHER -> {}

PipelineHandled == ApiHandled \/ ValidationHandled

GivenHeaders ==
    IF call.args.headers.kind = "dict" THEN call.args.headers.items ELSE <<>>

\* An entry with a key that is neither None nor blank and a value that is not None
WellFormed(p) == p[1] # None /\ p[1] \notin {"", "   "} /\ p[2] # None

\* The str form of a key or value
StrForm(x) == IF x = "<int 5>" THEN "5" ELSE x

\* C8: the exception's own headers are merged over the echoed request headers: a
\* well-formed entry is sent under its key with its value, also when the key was
\* echoed; an entry with a None key, a blank key or a None value is not sent; the
\* echoed headers the exception does not name stay; and when the merge fails the
\* response is returned all the same, with the echoed headers.
C8_ExceptionHeadersWin ==
    ApiHandled =>
        LET sent == {StrForm(GivenHeaders[i][1]) :
                        i \in {j \in DOMAIN GivenHeaders : WellFormed(GivenHeaders[j])}}
        IN  /\ response.kind = "JSONResponse"
            /\ response.status_code = exc.http_status_code
            /\ IF locals.merge_raised
               THEN response.headers = locals.echoed
               ELSE /\ DOMAIN response.headers = DOMAIN locals.echoed \cup sent
                    /\ \A i \in DOMAIN GivenHeaders :
                            WellFormed(GivenHeaders[i]) =>
                                response.headers[StrForm(GivenHeaders[i][1])] =
                                    StrForm(GivenHeaders[i][2])
                    /\ \A n \in DOMAIN locals.echoed \ sent :
                            response.headers[n] = locals.echoed[n]

C8_Witness ==
    /\ ApiHandled
    /\ ~locals.merge_raised
    /\ GivenHeaders = <<<<"x-request-id", "from-exception">>>>
    /\ "x-request-id" \in DOMAIN locals.echoed
    /\ locals.echoed["x-request-id"] = "abc-123"
    /\ response.headers["x-request-id"] = "from-exception"

\* C8: a merge that fails leaves a response.
C8_WitnessMergeFails ==
    /\ ApiHandled
    /\ locals.merge_raised
    /\ response.kind = "JSONResponse"

\* C9: the message the validation handler extracts is the first error's message
\* without its leading "Value error, " (the rest verbatim), the message itself
\* when it does not start with that prefix, and "Validation error" when the first
\* message cannot be extracted.
C9_LeadingPrefixRemoved ==
    ValidationHandled =>
        LET errors == failure.errors
        IN  IF errors # <<>> /\ errors[1].msg.kind = "str"
            THEN LET raw == errors[1].msg.text
                 IN  IF raw # <<>> /\ raw[1] = "Value error, "
                     THEN locals.msg = Tail(raw)
                     ELSE locals.msg = raw
            ELSE locals.msg = <<"Validation error">>

\* C10 as stated: a validation response has status 422, the VALIDATION_ERROR
\* descriptor's error_code / type / instance, and the extracted message as its
\* description (detail under RFC7807).
C10_DescriptionIsMessage ==
    ValidationHandled =>
        /\ response.status_code = 422
        /\ IF app.response_format = "rfc7807"
           THEN /\ response.content.type = "https://example.com/problems/validation-error"
                /\ response.content.instance = "/"
                /\ response.content.detail = locals.msg
           ELSE /\ response.content.error_code = "VAL-422"
                /\ response.content.description = locals.msg

\* C10 (amended): a validation response has status 422, the VALIDATION_ERROR
\* descriptor's error_code / type / instance, and as its description (detail
\* under RFC7807) the extracted message when that is not empty, and the
\* VALIDATION_ERROR descriptor's own description when it is empty.
C10_DescriptionIsMessageOrDefault ==
    ValidationHandled =>
        LET expected ==
                IF locals.msg # <<>>
                THEN locals.msg
                ELSE <<"Request validation failed. Please check the submitted fields.">>
        IN  /\ response.status_code = 422
            /\ IF app.response_format = "rfc7807"
               THEN /\ response.content.type = "https://example.com/problems/validation-error"
                    /\ response.content.instance = "/"
                    /\ response.content.status = 422
                    /\ response.content.detail = expected
               ELSE /\ response.content.error_code = "VAL-422"
                    /\ response.content.description = expected

C10_Witness ==
    /\ ValidationHandled
    /\ app.response_format = "rfc7807"
    /\ failure.errors = <<[msg |-> StrMsg(<<"Value error, ">>)]>>
    /\ locals.msg = <<>>
    /\ response.content.detail =
            <<"Request validation failed. Please check the submitted fields.">>

\* C11: an APIException and a validation failure always get a response built by
\* one of the pipeline's handlers, under every registration, also with
\* use_fallback_middleware false; the host's default handling never answers.
C11_AlwaysIntercepted ==
    (failure.kind = "handled" /\ failure.origin \in {"APIException", "RequestValidationError"}) =>
        /\ locals.handler \in {"api_exception_handler", "validation_exception_handler"}
        /\ response.kind = "JSONResponse"

\* The catch-all built the response of the failure in flight
FallbackHandled ==
    failure.kind = "handled" /\ locals.handler = "fallback_exception_middleware"

\* The unhandled exception of the request in flight has been dealt with
UnhandledDone == failure.kind = "handled" /\ failure.origin = "Exception"

DefaultRegistration ==
    /\ app.state = "registered"
    /\ app.response_format = "response_model"
    /\ app.use_fallback_middleware
    /\ app.log
    /\ app.log_traceback
    /\ app.log_traceback_unhandled_exception
    /\ app.log_request_context
    /\ app.effective_level = 30
    /\ app.extra_log_fields = NoHook
    /\ app.response_headers = BoolArg(TRUE)
    /\ Len(app.log_header_keys) = 6

\* The messages of the model that contain the word "wrong"
MessagesWithWrong == {"Something went wrong."}

\* The descriptions of the model that contain "An unexpected error occurred"
DescriptionsUnexpected == {"An unexpected error occurred. Please try again later."}

\* C13: under the default registration the body of an unhandled exception has a
\* message containing "wrong" and a description containing "An unexpected error
\* occurred".
C13_SomethingWentWrong ==
    (UnhandledDone /\ DefaultRegistration) =>
        /\ response.kind = "JSONResponse"
        /\ response.content.message \in MessagesWithWrong
        /\ response.content.description \in DescriptionsUnexpected

\* C14: the catch-all answers an unhandled exception only when
\* use_fallback_middleware is true; when it is false the exception leaves the
\* pipeline: no pipeline response is built and nothing is logged.
C14_FallbackOnlyIfEnabled ==
    UnhandledDone =>
        IF app.use_fallback_middleware
        THEN FallbackHandled /\ response.kind = "JSONResponse"
        ELSE /\ locals.handler = "host"
             /\ response.kind = "host response"
             /\ logs = <<>>

C14_Witness ==
    /\ UnhandledDone
    /\ ~app.use_fallback_middleware
    /\ app.log
    /\ failure.e.type = "ValueError"
    /\ response.kind = "host response"

\* A failure one of the three interception points will get
InterceptionPending ==
    \/ failure.kind = "APIException"
    \/ failure.kind \in {"RequestValidationError", "Exception"} /\ app.use_fallback_middleware

\* A pipeline handler has returned its response
Responded ==
    /\ failure.kind = "handled"
    /\ locals.handler \in {"api_exception_handler", "validation_exception_handler",
                           "fallback_exception_middleware"}
    /\ response.kind = "JSONResponse"

InterceptedAs ==
    CASE locals.handler = "api_exception_handler" -> "INTERCEPTED(DomainException)"
      [] locals.handler = "validation_exception_handler" -> "INTERCEPTED(ValidationFailure)"
      [] OTHER -> "INTERCEPTED(UnhandledFailure)"

OrderedPhases ==
    Responded =>
        /\ locals.phases \in {<<InterceptedAs, "LOGGED", "FORMATTED", "RESPONDED">>,
                              <<InterceptedAs, "FORMATTED", "RESPONDED">>}
        /\ ("LOGGED" \in Range(locals.phases)) = (logs # <<>>)

\* A response that was built is replaced by nothing before the request completes
OneResponse ==
    [][response.kind = "JSONResponse" =>
            \/ response' = response
            \/ response' = NoResponse /\ failure' = NoFailure]_vars

\* The host calls a pipeline handler for the failure in flight.  The handlers have
\* no other precondition: one that is called runs to its end.
DispatchEnabled ==
    \/ ApiExceptionHandlerCalled
    \/ ValidationExceptionHandlerCalled
    \/ FallbackExceptionMiddlewareCatches

HandlerRaised == failure.kind = "Exception" /\ failure.origin # "Exception"

\* The states of a handler that raised before it formatted the body
RaisedPrefixes ==
    {<<i>> \o l : i \in {"INTERCEPTED(DomainException)", "INTERCEPTED(ValidationFailure)"},
                  l \in {<<>>, <<"LOGGED">>}}

\* The states of the handler that responded, after those of one that raised
OrderedPhasesAfterRaise ==
    Responded =>
        LET tails == {<<InterceptedAs, "LOGGED", "FORMATTED", "RESPONDED">>,
                      <<InterceptedAs, "FORMATTED", "RESPONDED">>}
        IN  /\ \/ locals.phases \in tails
               \/ /\ locals.handler = "fallback_exception_middleware"
                  /\ failure.origin # "Exception"
                  /\ \E p \in RaisedPrefixes, t \in tails : locals.phases = p \o t
            /\ ("LOGGED" \in Range(locals.phases)) = (logs # <<>>)

C15_Witness ==
    /\ Responded
    /\ locals.handler = "fallback_exception_middleware"
    /\ ~app.log
    /\ locals.phases = <<"INTERCEPTED(UnhandledFailure)", "FORMATTED", "RESPONDED">>

C16_LoggedIffSwitchAndFlag ==
    /\ ApiHandled => ((logs # <<>>) = (app.log /\ call.args.log_exception))
    /\ (Responded /\ ~app.log) => logs = <<>>
    /\ (Responded /\ app.log /\ ~ApiHandled) => logs # <<>>

C16_Witness ==
    /\ ApiHandled
    /\ ~app.log
    /\ call.args.log_exception
    /\ logs = <<>>

\* C16: the per-instance flag silences a handler whose switch is on.
C16_WitnessFlagOff ==
    /\ ApiHandled
    /\ app.log
    /\ ~call.args.log_exception
    /\ logs = <<>>

\* The first piece of the summary line of each interception point
SummaryPrefixes == {"APIException: ", "Validation Error: ", "Unhandled Exception: "}

\* The summary line (the log_with_meta message with its context) is among the logs
SummaryLogged ==
    \E i \in DOMAIN logs :
        /\ logs[i].msg[1] \in SummaryPrefixes
        /\ "event" \in DOMAIN logs[i].extra

\* The failure in flight went to a pipeline handler that logs it
LoggingHandlerRan ==
    /\ failure.kind = "handled"
    /\ app.log
    /\ \/ failure.origin = "APIException" /\ call.args.log_exception
       \/ failure.origin # "APIException" /\ app.use_fallback_middleware

\* The APIException in flight makes its handler raise, with or without a hook
FailsWithoutHook ==
    /\ failure.origin = "APIException"
    /\ \/ SerializeRaises(exc, app.response_format)
       \/ ShouldLog(app, exc) /\ PayloadRaises(exc)

\* C17: with an extra_log_fields hook that raises, or returns what dict.update
\* rejects, the handler still returns its response, with the status, body and
\* headers it has without a hook, and still writes the summary line; so at the
\* APIException handler (for an exception whose log_message can be encoded and
\* whose body can be built), the validation handler and the catch-all.
C17_HookFailureSwallowed ==
    (failure.kind = "handled" /\ app.extra_log_fields.kind = "callable"
        /\ ~FailsWithoutHook) =>
        /\ (failure.origin = "APIException" \/ app.use_fallback_middleware) => Responded
        /\ ApiHandled =>
                /\ response.status_code = exc.http_status_code
                /\ response.content = SerializeException(exc, app.response_format)
                /\ response.headers =
                        MergeExcHeaders(ResponseHeaders(app, request),
                                        HeadersOrEmpty(call.args.headers)).headers
        /\ ValidationHandled =>
                /\ response.status_code = 422
                /\ response.content =
                        SerializeValidation(DescriptionOr(locals.msg, VALIDATION_ERROR),
                                            app.response_format)
                /\ response.headers = locals.echoed
        /\ FallbackHandled =>
                /\ response.status_code = 500
                /\ response.content = SerializeUnhandled(app.response_format)
        /\ LoggingHandlerRan => SummaryLogged

C17_Witness ==
    /\ FallbackHandled
    /\ app.extra_log_fields = Hook(TRUE, [tenant |-> "t-1"])
    /\ response.status_code = 500
    /\ Len(logs) = 2
    /\ logs[1].msg[1] = "Unhandled Exception: "
    /\ logs[1].extra.tenant = "t-1"

\* C17: a hook that raises in the APIException handler.
C17_WitnessApi ==
    /\ ApiHandled
    /\ app.extra_log_fields = Hook(TRUE, EmptyDict)
    /\ SummaryLogged
    /\ response.status_code = 400

\* The operations of a schema, as <<path, method>>
OperationPlaces(schema) ==
    IF "paths" \in DOMAIN schema
    THEN UNION {{<<p, m>> : m \in DOMAIN schema.paths[p]} : p \in DOMAIN schema.paths}
    ELSE {}

\* The responses of a schema, as <<path, method, status code>>
ResponsePlaces(schema) ==
    UNION {IF "responses" \in DOMAIN schema.paths[o[1]][o[2]]
           THEN {<<o[1], o[2], k>> : k \in DOMAIN schema.paths[o[1]][o[2]].responses}
           ELSE {} : o \in OperationPlaces(schema)}

ResponseAt(schema, r) == schema.paths[r[1]][r[2]].responses[r[3]]

\* The example in question may gain data: it is a dict with the four keys and no data
LacksOnlyData(example) ==
    /\ example.kind = "dict"
    /\ \A key \in ErrorKeys : key \in DOMAIN example.value
    /\ "data" \notin DOMAIN example.value

\* after is before with data: null added and nothing else changed
GainsNullData(before, after) ==
    /\ after.kind = "dict"
    /\ DOMAIN after.value = DOMAIN before.value \cup {"data"}
    /\ after.value["data"] = None
    /\ \A key \in DOMAIN before.value : after.value[key] = before.value[key]

\* The replacement openapi() has generated and traversed the schema it returned
SchemaPatched == docs.patched /\ docs.traversals = 1 /\ docs.calls > 0

\* C18: in the schema the replacement openapi() returns, every example under a
\* response whose status code is not "200" that has status, message, description
\* and error_code but no data is the generated example with data: null added;
\* every other example (one that has data, one that misses one of the four keys,
\* one that is no dict, one under "200") and everything else in the schema is as
\* the generator produced it.
C18_SchemaPatch ==
    SchemaPatched =>
        /\ DOMAIN docs.returned = DOMAIN docs.generated
        /\ \A key \in DOMAIN docs.generated \ {"paths"} :
                docs.returned[key] = docs.generated[key]
        /\ OperationPlaces(docs.returned) = OperationPlaces(docs.generated)
        /\ ResponsePlaces(docs.returned) = ResponsePlaces(docs.generated)
        /\ \A o \in OperationPlaces(docs.generated) :
            LET before == docs.generated.paths[o[1]][o[2]]
                after == docs.returned.paths[o[1]][o[2]]
            IN  /\ DOMAIN after = DOMAIN before
                /\ after.summary = before.summary
        /\ \A r \in ResponsePlaces(docs.generated) :
            LET before == ResponseAt(docs.generated, r)
                after == ResponseAt(docs.returned, r)
            IN  /\ after.description = before.description
                /\ DOMAIN after.content = DOMAIN before.content
                /\ \A media \in DOMAIN before.content :
                    IF r[3] # "200" /\ LacksOnlyData(before.content[media].example)
                    THEN GainsNullData(before.content[media].example,
                                       after.content[media].example)
                    ELSE after.content[media] = before.content[media]

\* A schema with an error example under "404" that gained data: null while the
\* same example under "200" did not.
C18_Witness ==
    /\ SchemaPatched
    /\ <<"/users", "post", "404">> \in ResponsePlaces(docs.generated)
    /\ "data" \notin
        DOMAIN ResponseAt(docs.generated, <<"/users", "post", "404">>)
                    .content["application/json"].example.value
    /\ ResponseAt(docs.returned, <<"/users", "post", "404">>)
            .content["application/json"].example.value["data"] = None
    /\ ResponseAt(docs.returned, <<"/users", "post", "200">>)
            .content["application/json"].example = DictExample(ErrorExample)

\* An example that already has data, and one that misses error_code, come back
\* as generated under a status code that is not "200".
C18_WitnessLeftAlone ==
    /\ SchemaPatched
    /\ <<"/login", "get", "404">> \in ResponsePlaces(docs.generated)
    /\ <<"/login", "get", "422">> \in ResponsePlaces(docs.generated)
    /\ "application/json" \in DOMAIN ResponseAt(docs.generated, <<"/login", "get", "404">>).content
    /\ "application/json" \in DOMAIN ResponseAt(docs.generated, <<"/login", "get", "422">>).content
    /\ ResponseAt(docs.returned, <<"/login", "get", "404">>)
            .content["application/json"].example
         = DictExample(DictUpdate(ErrorExample, [data |-> "payload"]))
    /\ ResponseAt(docs.returned, <<"/login", "get", "422">>)
            .content["application/json"].example
         = DictExample([status |-> "FAIL", message |-> "m", description |-> "d"])

\* One more openapi() call leaves the generator, the traversal and the result alone
LaterCallReturnsCached ==
    (docs.calls > 0 /\ docs'.calls = docs.calls + 1) =>
        /\ docs'.generator_calls = docs.generator_calls
        /\ docs'.traversals = docs.traversals
        /\ docs'.openapi_schema = docs.openapi_schema
        /\ docs'.returned = docs.returned

\* C19: over any sequence of openapi() calls the generator runs at most once and
\* the traversal at most once, both on the first call; every later call returns
\* the schema cached by the first one; and the traversal applied to a schema it
\* has already patched gives that schema back.
C19_ComputedOnce ==
    /\ [](/\ docs.generator_calls <= 1
          /\ docs.traversals <= 1
          /\ docs.calls > 0 => docs.generator_calls = 1 /\ docs.returned = docs.openapi_schema
          /\ SchemaPatched => PatchSchema(docs.returned) = docs.returned)
    /\ [][LaterCallReturnsCached]_vars

\* Three calls on a patched app, one generation, one traversal that changed the
\* schema.
C19_Witness ==
    /\ SchemaPatched
    /\ docs.calls = MaxCalls
    /\ docs.generator_calls = 1
    /\ docs.returned # docs.generated

\* The entry is no str, or is empty or blank
BadHeaderName(k) == k \in {None, Int5, Unprintable, "", "   "}

\* The name has no surrounding blanks and no upper-case letter
NormalizedHeaderName(k) ==
    /\ k \notin {None, Int5, Unprintable, "", "   "}
    /\ k \notin {" X-Request-Id ", "X-Request-Id", "X-User-Id", "Retry-After"}

\* The response echo list the host gave, if it gave a list
GivenEchoList ==
    IF app.state # "none" /\ app.response_headers.kind = "tuple"
    THEN app.response_headers.keys
    ELSE <<>>

\* Nothing of a request has happened
NoRequestHandled ==
    /\ request = NoRequest
    /\ failure = NoFailure
    /\ locals = NoLocals
    /\ logs = <<>>
    /\ response = NoResponse

\* C20: register_exception_handlers raises ValueError exactly when the log capture
\* list or the response echo list has an entry that is no str or is empty or
\* blank, and then no request is ever handled; otherwise both lists are stored
\* entry by entry, trimmed and lower-cased.
C20_HeaderNamesValidated ==
    /\ app.state # "none" =>
            (app.state = "ValueError" <=>
                \/ \E i \in DOMAIN app.given_log_header_keys :
                        BadHeaderName(app.given_log_header_keys[i])
                \/ \E i \in DOMAIN GivenEchoList : BadHeaderName(GivenEchoList[i]))
    /\ app.state = "ValueError" => NoRequestHandled
    /\ app.state = "registered" =>
        /\ DOMAIN app.log_header_keys = DOMAIN app.given_log_header_keys
        /\ \A i \in DOMAIN app.log_header_keys :
            /\ NormalizedHeaderName(app.log_header_keys[i])
            /\ app.log_header_keys[i] = Lower(Strip(app.given_log_header_keys[i]))
        /\ \A i \in DOMAIN app.response_header_keys :
            NormalizedHeaderName(app.response_header_keys[i])
        /\ app.response_headers.kind = "tuple" =>
            /\ DOMAIN app.response_header_keys = DOMAIN GivenEchoList
            /\ \A i \in DOMAIN GivenEchoList :
                app.response_header_keys[i] = Lower(Strip(GivenEchoList[i]))

\* Both lists given with blanks and capitals, stored trimmed and lower-cased,
\* and a request served with them.
C20_Witness ==
    /\ app.state = "registered"
    /\ app.given_log_header_keys = <<" X-Request-Id ", "X-User-Id">>
    /\ app.log_header_keys = <<"x-request-id", "x-user-id">>
    /\ response # NoResponse

C20_WitnessEcho ==
    /\ app.state = "registered"
    /\ GivenEchoList = <<" X-Request-Id ", "X-User-Id">>
    /\ app.response_header_keys = <<"x-request-id", "x-user-id">>
    /\ response # NoResponse

\* A registration rejected for an entry that is no str
C20_WitnessRejected ==
    /\ app.state = "ValueError"
    /\ \/ Int5 \in Range(app.given_log_header_keys)
       \/ Int5 \in Range(GivenEchoList)

\* The i-th positional value of a descriptor, the empty string when it has fewer
Positional(value, i) == IF i <= Len(value) THEN value[i] ELSE ""

\* C21: for the descriptor of 2 to 5 positional values an APIException was built
\* from, error_code is its 1st value, message its 2nd, description its 3rd,
\* rfc7807_type its 4th and rfc7807_instance its 5th, and description,
\* rfc7807_type and rfc7807_instance are "" when the position is missing; the
\* exception carries the 1st, 4th and 5th as the accessors return them.
C21_AccessorsByPosition ==
    Constructed =>
        LET value == call.args.error_code
        IN  /\ Len(value) \in 2..5
            /\ DescErrorCode(value) = value[1]
            /\ DescMessage(value) = value[2]
            /\ DescDescription(value) = Positional(value, 3)
            /\ DescRfc7807Type(value) = Positional(value, 4)
            /\ DescRfc7807Instance(value) = Positional(value, 5)
            /\ exc.error_code = value[1]
            /\ exc.rfc7807_type = Positional(value, 4)
            /\ exc.rfc7807_instance = Positional(value, 5)

\* An exception built from a descriptor of two values: the three optional
\* accessors gave "".
C21_Witness ==
    /\ Constructed
    /\ Len(call.args.error_code) = 2
    /\ NoTextOverride
    /\ exc.description = ""
    /\ exc.rfc7807_type = ""
    /\ exc.rfc7807_instance = ""

\* An exception built from a descriptor of five values, all five read back.
C21_WitnessFive ==
    /\ Constructed
    /\ Len(call.args.error_code) = 5
    /\ NoTextOverride
    /\ <<exc.error_code, exc.message, exc.description, exc.rfc7807_type,
         exc.rfc7807_instance>> = call.args.error_code

\* C22: with use_fallback_middleware true, an exception that the APIException
\* handler or the validation handler lets out (the body of an APIException whose
\* message is no str cannot be built in the two pydantic formats) is caught by the
\* catch-all like one an endpoint raised: the catch-all can run for it, and when
\* the failure is dealt with the response is the catch-all's, status 500, with the
\* INTERNAL_SERVER_ERROR body of the registered format.
C22_HandlerExceptionsCaught ==
    /\ []((failure.kind = "Exception" /\ app.use_fallback_middleware)
            => FallbackExceptionMiddlewareCatches)
    /\ []((failure.kind = "handled" /\ "e" \in DOMAIN failure /\ app.use_fallback_middleware)
            => /\ FallbackHandled
               /\ response.kind = "JSONResponse"
               /\ response.status_code = 500
               /\ response.media_type = MediaType(app.response_format)
               /\ response.content =
                    (IF app.response_format = "rfc7807"
                     THEN [type |-> INTERNAL_SERVER_ERROR[4],
                           instance |-> INTERNAL_SERVER_ERROR[5],
                           title |-> INTERNAL_SERVER_ERROR[2],
                           status |-> 500,
                           detail |-> INTERNAL_SERVER_ERROR[3]]
                     ELSE [data |-> None,
                           status |-> "FAIL",
                           message |-> INTERNAL_SERVER_ERROR[2],
                           error_code |-> INTERNAL_SERVER_ERROR[1],
                           description |-> INTERNAL_SERVER_ERROR[3]]))
    /\ [][(HandlerRaised /\ app.use_fallback_middleware) => FallbackHandled']_vars

\* An APIException with message=5 under the rfc7807 format: its handler raised
\* pydantic's ValidationError and the catch-all answered 500.
C22_Witness ==
    /\ FallbackHandled
    /\ failure.origin = "APIException"
    /\ failure.e.type = "ValidationError"
    /\ exc.message = Int5
    /\ app.response_format = "rfc7807"
    /\ response.status_code = 500
    /\ response.content.title = "Internal Server Error"

\* The context attached to the summary line of the APIException handler
SummaryContexts ==
    {logs[i].extra : i \in {j \in DOMAIN logs : logs[j].msg[1] = "APIException: "}}

\* The APIException handler ran its logging block for the exception in flight
DomainExceptionLogged ==
    /\ locals # NoLocals
    /\ locals.handler = "api_exception_handler"
    /\ SummaryContexts # {}

\* C23: whenever an APIException is logged, its log context holds raise_file and
\* raise_line if log_traceback is true, whatever log_request_context and the log
\* level are, and holds neither if log_traceback is false.
C23_RaiseSiteIffTraceback ==
    DomainExceptionLogged =>
        \A meta \in SummaryContexts :
            /\ app.log_traceback =>
                    /\ "raise_file" \in DOMAIN meta /\ meta["raise_file"] = RaiseFile
                    /\ "raise_line" \in DOMAIN meta /\ meta["raise_line"] = RaiseLine
            /\ ~app.log_traceback =>
                    /\ "raise_file" \notin DOMAIN meta
                    /\ "raise_line" \notin DOMAIN meta

\* The contexts attached to the summary lines of the three handlers
LoggedContexts ==
    {logs[i].extra : i \in {j \in DOMAIN logs : /\ logs[j].msg[1] \in SummaryPrefixes
                                                 /\ "event" \in DOMAIN logs[j].extra}}

\* The keys of a context that are names of request headers
HeaderEntries(meta) ==
    DOMAIN meta \cap (RequestHeaderNames \cup Range(DefaultLogHeaderKeys)
                        \cup (IF request = NoRequest THEN {} ELSE DOMAIN request.headers))

C24_WitnessOff ==
    /\ app.state = "registered"
    /\ ~app.log_request_context
    /\ request # NoRequest
    /\ \E n \in DOMAIN request.headers :
            n \in Range(app.log_header_keys) /\ request.headers[n] # ""
    /\ LoggedContexts # {}
    /\ \A meta \in LoggedContexts : HeaderEntries(meta) = {}

\* An APIException with a log_message went to its handler and the handler was to
\* log it
PayloadHandled ==
    /\ failure.kind \in {"Exception", "handled"}
    /\ failure.origin = "APIException"
    /\ app.log
    /\ exc.log_exception
    /\ exc.log_message # None

\* The response api_exception_handler gives the exception in flight
DomainResponse ==
    /\ ApiHandled
    /\ response.kind = "JSONResponse"
    /\ response.status_code = exc.http_status_code
    /\ response.content = SerializeException(exc, app.response_format)

\* The handler complained about the type of log_message
ComplaintLogged ==
    \E i \in DOMAIN logs :
        logs[i].msg = <<"log_message param type is not correct! It can be [str | dict]">>

\* a str log_message is in the context as it is
PayloadStrVerbatim ==
    (PayloadHandled /\ exc.log_message \notin DictPayloads \cup {InvalidLogMessage}) =>
        /\ SummaryContexts # {}
        /\ \A meta \in SummaryContexts :
            /\ "extra_log_message" \in DOMAIN meta
            /\ meta["extra_log_message"] = exc.log_message

\* a dict log_message is in the context, in a form that has only JSON values
PayloadDictEncoded ==
    (PayloadHandled /\ exc.log_message \in DictPayloads) =>
        /\ SummaryContexts # {}
        /\ \A meta \in SummaryContexts :
            /\ "extra_log_message" \in DOMAIN meta
            /\ meta["extra_log_message"] \in
                    {DictPayloadPlain, "<dict {'at': '2024-01-01T00:00:00'}>",
                     "<dict {'conn': '<object object>'}>"}

\* a log_message of another type is not in the context and is complained about;
\* the summary line and the response are as without it
PayloadOtherIgnored ==
    (PayloadHandled /\ exc.log_message = InvalidLogMessage) =>
        /\ SummaryContexts # {}
        /\ \A meta \in SummaryContexts : "extra_log_message" \notin DOMAIN meta
        /\ ComplaintLogged
        /\ failure.kind = "handled" => DomainResponse

\* C25: for a logged APIException with a log_message: a str is stored as it is
\* under extra_log_message; a dict is stored under that key in serializable form;
\* a value of another type adds no extra_log_message, is complained about in the
\* log, and leaves the summary line and the response as they are.
C25_PayloadByType ==
    /\ PayloadStrVerbatim
    /\ PayloadDictEncoded
    /\ PayloadOtherIgnored

\* The positions in the log of the APIException handler's summary line and of
\* its traceback line
SummaryLines == {i \in DOMAIN logs : logs[i].msg[1] = "APIException: "}
TracebackLines == {i \in DOMAIN logs : logs[i].msg[1] = "Traceback:\n"}

\* The log_level argument when one was given, else the level the logger had when
\* register_exception_handlers ran
LevelAtRegistration ==
    IF app.log_level.kind = "int" THEN app.log_level.n ELSE app.logger_level

C26_WitnessOverride ==
    /\ DomainExceptionLogged
    /\ app.log_level = IntArg(40)
    /\ app.logger_level = 10
    /\ app.log_traceback
    /\ TracebackLines = {}

\* The positions of the summary lines that carry a context; the line after each
\* is the "meta:" rendering of the same context
ContextLines ==
    {i \in DOMAIN logs : logs[i].msg[1] \in SummaryPrefixes /\ "event" \in DOMAIN logs[i].extra}

\* The name a context key has in the attached mapping
AttachedName(k) == IF k \in RESERVED_KEYS THEN "meta_" \o k ELSE k

\* The value json.dumps accepts, or the str() of one it rejects
AttachedValue(k, v) ==
    IF k \in Range(app.extra_log_fields.order) /\ v = CircularValue THEN "[[...]]" ELSE v

\* C27 as stated: the mapping attached to the summary line has no reserved key,
\* has every context key under its own name, or under meta_<key> if reserved, with
\* its value (its str() when json.dumps rejects it), and has one key per entry.
C27_EveryEntryUnderOneKey ==
    \A i \in ContextLines :
        LET meta == logs[i + 1].block
            extra == logs[i].extra
        IN  /\ DOMAIN extra \cap RESERVED_KEYS = {}
            /\ DOMAIN extra = {AttachedName(k) : k \in DOMAIN meta}
            /\ \A k \in DOMAIN meta : extra[AttachedName(k)] = AttachedValue(k, meta[k])
            /\ Cardinality(DOMAIN extra) = Cardinality(DOMAIN meta)

\* The context keys whose attached name another context key has too
Clashing(meta) ==
    {k \in DOMAIN meta : \E j \in DOMAIN meta : j # k /\ AttachedName(j) = AttachedName(k)}

\* C27: the mapping attached to the summary line has no reserved key; its keys are
\* the context keys, a reserved one renamed meta_<key>; a context entry whose
\* attached name no other entry has is there with its value (its str() when
\* json.dumps rejects it); of a reserved key k and a key meta_k of the same
\* context only the one that is later in the context is there, under meta_k.
C27_RenamedUnlessClash ==
    \A i \in ContextLines :
        LET meta == logs[i + 1].block
            extra == logs[i].extra
            order == app.extra_log_fields.order
        IN  /\ DOMAIN extra \cap RESERVED_KEYS = {}
            /\ DOMAIN extra = {AttachedName(k) : k \in DOMAIN meta}
            /\ \A k \in DOMAIN meta \ Clashing(meta) :
                    extra[AttachedName(k)] = AttachedValue(k, meta[k])
            /\ \A k \in Clashing(meta) :
                    (\A j \in Clashing(meta) :
                        AttachedName(j) = AttachedName(k) => Rank(j, order) <= Rank(k, order))
                    => extra[AttachedName(k)] = AttachedValue(k, meta[k])
            /\ Clashing(meta) = {} => Cardinality(DOMAIN extra) = Cardinality(DOMAIN meta)

\* A hook returned name and a list that contains itself: name is attached as
\* meta_name and the list as its str().
C27_Witness ==
    /\ ContextLines # {}
    /\ app.extra_log_fields.order = <<"name", "cycle">>
    /\ \A i \in ContextLines :
        /\ logs[i + 1].block["name"] = "billing"
        /\ logs[i + 1].block["cycle"] = CircularValue
        /\ "name" \notin DOMAIN logs[i].extra
        /\ logs[i].extra["meta_name"] = "billing"
        /\ logs[i].extra["cycle"] = "[[...]]"
        /\ logs[i].extra["event"] = logs[i + 1].block["event"]

\* A hook returned message and then meta_message: one attached entry for the two
C27_WitnessClash ==
    /\ ContextLines # {}
    /\ app.extra_log_fields.order = <<"message", "meta_message">>
    /\ \A i \in ContextLines :
        /\ {"message", "meta_message"} \subseteq DOMAIN logs[i + 1].block
        /\ logs[i].extra["meta_message"] = "shadow"
        /\ Cardinality(DOMAIN logs[i].extra) = Cardinality(DOMAIN logs[i + 1].block) - 1

-----------------------------------------------------------------------------
(* The "meta:" block of log_with_meta (logger.py) *)

MaxValueLen == 6
MaxLimit == 5

\* A text of n characters; a text is the sequence of its characters.
Chars(n) == [i \in 1..n |-> "a"]

\* The value lengths tried: short ones around the small limits, and the lengths
\* around the default limit.
ValueLens ==
    0..MaxValueLen
    \cup {META_MAX_VAL_LEN - 1, META_MAX_VAL_LEN, META_MAX_VAL_LEN + 1,
          META_MAX_VAL_LEN + 5}

\* The context values tried: a str, and a list holding one str
MetaValues == [kind : {"str", "list"}, text : {Chars(n) : n \in ValueLens}]

\* The contexts tried: one entry, and two entries
Metas ==
    {[k \in {"detail"} |-> v] : v \in MetaValues}
    \cup {[k \in {"detail", "path"} |->
            IF k = "detail" THEN v ELSE [kind |-> "str", text |-> Chars(2)]] :
          v \in {w \in MetaValues : Len(w.text) \in {0, MaxValueLen}}}

MetaStyles == {"kv_block", "pretty_json", "compact"}

Limits == (0..MaxLimit) \cup {META_MAX_VAL_LEN}

\* json.dumps(v, ensure_ascii=False, default=str) of a value
JsonDumps(v) ==
    IF v.kind = "list"
    THEN <<"[", "\"">> \o v.text \o <<"\"", "]">>
    ELSE <<"\"">> \o v.text \o <<"\"">>

\* _fmt_kv_block's v_str: json.dumps for a dict, list or tuple, str(v) otherwise
VStr(v) == IF v.kind = "list" THEN JsonDumps(v) ELSE v.text

Ellipsis == <<".", ".", ".">>

Max(a, b) == IF a >= b THEN a ELSE b

\* A _shorten that cuts at the limit and adds no marker.
ShortenCuts(s, limit) == IF Len(s) <= limit THEN s ELSE SubSeq(s, 1, limit)

\* _shorten(s, limit)
Shorten(s, limit) ==
    IF Len(s) <= limit THEN s ELSE SubSeq(s, 1, Max(0, limit - 3)) \o Ellipsis

\* _fmt_kv_block(meta): one line per entry, the value text of each shortened
FmtKvBlock(meta, limit) == [k \in DOMAIN meta |-> Shorten(VStr(meta[k]), limit)]

\* _fmt_pretty_json(meta): json.dumps of the whole mapping
FmtPrettyJson(meta) == [k \in DOMAIN meta |-> JsonDumps(meta[k])]

\* _format_meta(meta)
FormatMeta(meta, style, limit) ==
    IF style = "pretty_json" THEN FmtPrettyJson(meta) ELSE FmtKvBlock(meta, limit)

\* The host sets logger.META_STYLE and logger.META_MAX_VAL_LEN.
Configure ==
    \E style \in MetaStyles, limit \in Limits :
        /\ rendering' = [rendering EXCEPT !.META_STYLE = style,
                                          !.META_MAX_VAL_LEN = limit]
        /\ UNCHANGED <<DEFAULT_HTTP_CODES, overrides, call, exc, app, docs, inflight,
                       request, failure, locals, logs, response>>

\* log_with_meta with a non-empty context: block = _format_meta(meta)
FormatMetaBlock ==
    \E meta \in Metas :
        /\ rendering' = [rendering EXCEPT
                            !.formatted = TRUE,
                            !.style = rendering.META_STYLE,
                            !.limit = rendering.META_MAX_VAL_LEN,
                            !.meta = meta,
                            !.block = FormatMeta(meta, rendering.META_STYLE,
                                                 rendering.META_MAX_VAL_LEN)]
        /\ UNCHANGED <<DEFAULT_HTTP_CODES, overrides, call, exc, app, docs, inflight,
                       request, failure, locals, logs, response>>

NextRendering == Configure \/ FormatMetaBlock

SpecRendering == Init /\ [][NextRendering]_vars

\* The text of a value in the style in force, before any shortening
RenderedText(v, style) == IF style = "pretty_json" THEN JsonDumps(v) ELSE VStr(v)

EndsWithEllipsis(s) ==
    Len(s) >= 3 /\ SubSeq(s, Len(s) - 2, Len(s)) = Ellipsis

C28_WitnessPrettyJson ==
    /\ rendering.formatted
    /\ rendering.style = "pretty_json"
    /\ Len(JsonDumps(rendering.meta["detail"])) > rendering.limit
    /\ rendering.block["detail"] = JsonDumps(rendering.meta["detail"])

-----------------------------------------------------------------------------
(* The instance during handling (Spec) *)

\* C29 as stated: api_exception_handler leaves every field of the instance it
\* handles as the constructor set it, the headers mapping included.
C29_ReadOnlyAfterConstruction ==
    [][ApiExceptionHandlerCalled => exc' = exc]_vars

-----------------------------------------------------------------------------
(* Requests for the documentation schema in flight together *)

\* A scheduler that may switch requests after any statement of openapi().
SuspendsAnywhere(pc) == TRUE

\* Whether the event loop may switch to another request after the statement at pc:
\* openapi() is a plain function that awaits nothing, and the host's route calls
\* it from a coroutine without awaiting in between.
Suspends(pc) == FALSE

\* The paths of a document
PathKeys(schema) == IF "paths" \in DOMAIN schema THEN DOMAIN schema.paths ELSE {}

\* One iteration of "for path_k, path_v in paths.items()", writing into the dict
PatchPath(schema, path_k) ==
    [schema EXCEPT
        !.paths[path_k] = [method_k \in DOMAIN @ |-> PatchOperation(@[method_k])]]

\* The documents tried with requests in flight: those of one path whose operation
\* has at most one response, and the document of two paths
InflightSchemas ==
    {schema \in Schemas :
        \/ Cardinality(PathKeys(schema)) # 1
        \/ \A path_k \in PathKeys(schema) :
            \A method_k \in DOMAIN schema.paths[path_k] :
                LET method_v == schema.paths[path_k][method_k]
                IN  "responses" \in DOMAIN method_v =>
                        Cardinality(DOMAIN method_v.responses) <= 1}

\* The replacement openapi is installed
OpenapiReplaced == app.state = "registered" /\ docs.patched

\* Request c may execute its statement at pc
AtStatement(c, pc) ==
    /\ OpenapiReplaced
    /\ inflight.running \in {0, c}
    /\ inflight.callers[c].pc = pc

\* The event loop after request c executed the statement at pc
Running(c, pc) == IF Suspends(pc) THEN 0 ELSE c

OthersInFlight(c) ==
    \E d \in Callers \ {c} : inflight.callers[d].pc \notin {"idle", "done"}

InflightFrame ==
    UNCHANGED <<DEFAULT_HTTP_CODES, overrides, call, exc, app, docs, rendering, request,
                failure, locals, logs, response>>

\* A request for the documentation schema arrives, while others may be in flight.
Arrive ==
    \E c \in Callers :
        /\ OpenapiReplaced
        /\ inflight.callers[c].pc = "idle"
        /\ inflight' = [inflight EXCEPT !.callers[c].pc = "check"]
        /\ InflightFrame

\* if not app.openapi_schema:
CheckCached ==
    \E c \in Callers :
        /\ AtStatement(c, "check")
        /\ inflight' = [inflight EXCEPT
                !.running = Running(c, "check"),
                !.callers[c].overlapped = OthersInFlight(c),
                !.callers[c].pc =
                    IF SchemaUnset(IF inflight.cached THEN inflight.object ELSE NoSchema)
                    THEN "generate"
                    ELSE "return"]
        /\ InflightFrame

\* schema = original_openapi(): the host's method builds the document only while
\* app.openapi_schema is unset, stores it there and returns that dict.
Generate ==
    \E c \in Callers :
        /\ AtStatement(c, "generate")
        /\ \E schema \in (IF inflight.cached THEN {inflight.object}
                                               ELSE InflightSchemas) :
                inflight' = [inflight EXCEPT
                    !.running = Running(c, "generate"),
                    !.generated = IF inflight.cached THEN @ ELSE schema,
                    !.object = schema,
                    !.cached = TRUE,
                    !.callers[c].todo = PathKeys(schema),
                    !.callers[c].pc = "traverse"]
        /\ InflightFrame

\* for path_k, path_v in paths.items(): ... example["data"] = None
Traverse ==
    \E c \in Callers :
        /\ AtStatement(c, "traverse")
        /\ IF inflight.callers[c].todo = {}
           THEN inflight' = [inflight EXCEPT
                    !.running = Running(c, "traverse"),
                    !.callers[c].pc = "store"]
           ELSE \E path_k \in inflight.callers[c].todo :
                    inflight' = [inflight EXCEPT
                        !.running = Running(c, "traverse"),
                        !.object = PatchPath(@, path_k),
                        !.callers[c].todo = @ \ {path_k}]
        /\ InflightFrame

\* app.openapi_schema = schema
Store ==
    \E c \in Callers :
        /\ AtStatement(c, "store")
        /\ inflight' = [inflight EXCEPT
                !.running = Running(c, "store"),
                !.cached = TRUE,
                !.stored = @ \cup {inflight.object},
                !.callers[c].pc = "return"]
        /\ InflightFrame

\* return app.openapi_schema
Return ==
    \E c \in Callers :
        /\ AtStatement(c, "return")
        /\ inflight' = [inflight EXCEPT
                !.running = 0,
                !.callers[c].returned = inflight.object,
                !.callers[c].pc = "done"]
        /\ InflightFrame

NextInflight ==
    \/ Register
    \/ Arrive
    \/ CheckCached
    \/ Generate
    \/ Traverse
    \/ Store
    \/ Return

SpecInflight == Init /\ [][NextInflight]_vars

\* C30: whatever the order in which the requests in flight are served, every
\* request is given the fully patched document, every value stored in the cache is
\* that document, and the value cached once all calls have returned is what one
\* call alone produces.
C30_NoUnpatchedSchemaExposed ==
    LET patched == PatchSchema(inflight.generated)
    IN  /\ \A c \in Callers :
            inflight.callers[c].pc = "done" => inflight.callers[c].returned = patched
        /\ \A s \in inflight.stored : s = patched
        /\ (inflight.cached /\ inflight.running = 0) => inflight.object = patched

\* Both requests were in flight before either was served, the document had an
\* example to patch, and both were given the patched document.
C30_Witness ==
    /\ \A c \in Callers : inflight.callers[c].pc = "done"
    /\ \E c \in Callers : inflight.callers[c].overlapped
    /\ PatchSchema(inflight.generated) # inflight.generated
    /\ \A c \in Callers : inflight.callers[c].returned = PatchSchema(inflight.generated)
    /\ inflight.stored = {PatchSchema(inflight.generated)}

=============================================================================
